---------------------------- MODULE Spec2Model ----------------------------
(***************************************************************************)
(* Model of the daily analytics pipeline of notebooks/:                    *)
(*   data_aggregation.py   merge_dataframes_with_fillna,                   *)
(*                         calculate_payment_coverage                      *)
(*   iceberg_storage.py    schema/table create, batched insert, read-back, *)
(*                         verification, the save workflow                 *)
(*   trino_connection.py   connection helpers                              *)
(*                                                                         *)
(* The specifications share the module.  SpecData drives the in-memory     *)
(* merge-and-derive functions over bounded input tables.  SpecIO drives    *)
(* the operations that talk to the query connection, one action per        *)
(* statement sent, with a call stack for the composed workflows.           *)
(***************************************************************************)
EXTENDS Integers, Sequences, FiniteSets, TLC

VARIABLES
    \* ---- data_aggregation.py: in-memory tables
    orders,       \* orders_df   [cols, rows]
    payments,     \* payments_df [cols, rows]
    fill_value,   \* fill_value argument of merge_dataframes_with_fillna
    dpc,          \* position of the pipeline: start, merged, covered, failed
    merged_df,    \* table returned by merge_dataframes_with_fillna, with its index
    result_df,    \* table returned by calculate_payment_coverage
    derr,         \* exception raised by the last data operation, or "none"
    dmsg,         \* the message of that exception, as a sequence of its parts
    again_df,     \* calculate_payment_coverage applied once more: [own, same]
    summary,      \* what get_analytics_summary gave: [exc, msg, stats]
    cell,         \* a cell of a row to insert and its literal: [value, formatted]
    \* ---- iceberg_storage.py, trino_connection.py: operations on a connection
    op,           \* the operation the caller invoked, or "idle"
    args,         \* its arguments: [n, batch_size, drop_if_exists, dtypes,
                  \*                 limit, where_clause, order_by]
    stack,        \* call stack of [fn, pc] frames, innermost last
    cursors,      \* functions holding a cursor that is not closed
    log,          \* statements passed to cursor.execute, in order
    catalog,      \* destination engine: [schema, table, cols, type, rows]
    outcome,      \* how the invoked operation ended: [kind, cause, msg]
    loc           \* local variables and return values of the running functions

dvars == <<orders, payments, fill_value, dpc, merged_df, result_df, derr,
          dmsg, again_df, summary, cell>>

iovars == <<op, args, stack, cursors, log, catalog, outcome, loc>>

-----------------------------------------------------------------------------
(* Bounds of the data model *)

MaxDate == 2

\* Rows of the table handed to the storage operations.
MaxRows == 3

\* Largest batch_size argument tried (besides DEFAULT_BATCH_SIZE).
MaxBatch == 2

\* Catalogs listed by SHOW CATALOGS.
MaxCatalogs == 2

Dates == 1..MaxDate

\* Amounts of the tables of several rows: paid/revenue can be below, equal to
\* and above 1.
Amounts == {1, 2}

\* Amounts of the one-row tables: negative (refunds), zero, positive.
WideAmounts == {-2, -1, 0, 1, 2, 3}

\* Caller-supplied fill values; 0 is DEFAULT_FILL_VALUE.
Fills == {0, 1}

-----------------------------------------------------------------------------
(* Cells.  A numeric cell is <<v>>, a missing one (NaN / None) is <<>>. *)

Null == <<>>

Some(v) == <<v>>

\* pd.isna
IsNull(c) == c = Null

AmountCells == {Null} \cup {Some(v) : v \in Amounts}

OrdersCols == {"dt", "revenue", "orders_cnt"}

PaymentsCols == {"dt", "paid_amount", "payments_cnt"}

\* Columns whose dtype is not a number: the date key is an object column.
ObjectCols == {"dt"}

EmptyDf == [cols |-> {}, rows |-> <<>>]

Range(s) == { s[i] : i \in 1..Len(s) }

\* Sequences over S without repetition.
DistinctSeqs(S) ==
    UNION { { s \in [1..k -> S] : \A i, j \in 1..k : i # j => s[i] # s[j] }
            : k \in 0..Cardinality(S) }

\* Daily order aggregates: at most one row per date, rows in any order.
\* COUNT(*) of a group is a number; SUM may be null.
KeyedOrders ==
    UNION { { [cols |-> OrdersCols,
               rows |-> [i \in 1..Len(ds) |->
                           [dt |-> ds[i], revenue |-> a[i], orders_cnt |-> Some(1)]]]
              : a \in [1..Len(ds) -> AmountCells] }
            : ds \in DistinctSeqs(Dates) }

KeyedPayments ==
    UNION { { [cols |-> PaymentsCols,
               rows |-> [i \in 1..Len(ds) |->
                           [dt |-> ds[i], paid_amount |-> a[i], payments_cnt |-> Some(1)]]]
              : a \in [1..Len(ds) -> AmountCells] }
            : ds \in DistinctSeqs(Dates) }

\* Tables that lack the merge key column.
KeylessOrders ==
    { [cols |-> OrdersCols \ {"dt"}, rows |-> r] :
        r \in {<<>>, <<[revenue |-> Some(1), orders_cnt |-> Some(1)]>>} }

KeylessPayments ==
    { [cols |-> PaymentsCols \ {"dt"}, rows |-> r] :
        r \in {<<>>, <<[paid_amount |-> Some(1), payments_cnt |-> Some(1)]>>} }

\* One-row tables over the wider range of amounts.
OneRowOrders ==
    { [cols |-> OrdersCols,
       rows |-> <<[dt |-> 1, revenue |-> c, orders_cnt |-> Some(1)]>>] :
        c \in {Null} \cup {Some(v) : v \in WideAmounts} }

OneRowPayments ==
    { [cols |-> PaymentsCols,
       rows |-> <<[dt |-> 1, paid_amount |-> c, payments_cnt |-> Some(1)]>>] :
        c \in {Null} \cup {Some(v) : v \in WideAmounts} }

\* One-row tables that hold the key but lack their amount column.
MeasurelessOrders ==
    { [cols |-> {"dt", "orders_cnt"}, rows |-> <<[dt |-> 1, orders_cnt |-> Some(1)]>>] }

MeasurelessPayments ==
    { [cols |-> {"dt", "payments_cnt"}, rows |-> <<[dt |-> 1, payments_cnt |-> Some(1)]>>] }

SmallOrders == { t \in KeyedOrders : Len(t.rows) = 0 }

SmallPayments == { t \in KeyedPayments : Len(t.rows) = 0 }

DatesOf(rows) == { rows[i].dt : i \in 1..Len(rows) }

\* The worked scenarios of the pipeline, with their amounts as written:
\* orders {D1: 100, D2: 200} with payments {D1: 50}; an overpayment of 150 on
\* a revenue of 100; a day with revenue 0 and paid 0.
OrdersOf(revs) ==
    [cols |-> OrdersCols,
     rows |-> [i \in 1..Len(revs) |->
                 [dt |-> i, revenue |-> Some(revs[i]), orders_cnt |-> Some(1)]]]

PaymentsOf(paids) ==
    [cols |-> PaymentsCols,
     rows |-> [i \in 1..Len(paids) |->
                 [dt |-> i, paid_amount |-> Some(paids[i]), payments_cnt |-> Some(1)]]]

Scenarios ==
    { <<OrdersOf(<<100, 200>>), PaymentsOf(<<50>>)>>,
      <<OrdersOf(<<100>>), PaymentsOf(<<150>>)>>,
      <<OrdersOf(<<0>>), PaymentsOf(<<0>>)>> }

\* Pairs in which a table lacks its amount column.
MeasurelessPairs ==
    ((MeasurelessOrders \cup {OrdersOf(<<100>>)})
        \X (MeasurelessPayments \cup {PaymentsOf(<<50>>)}))
    \ {<<OrdersOf(<<100>>), PaymentsOf(<<50>>)>>}

-----------------------------------------------------------------------------
(* merge_dataframes_with_fillna *)

MatchIdx(rows, key, k) == { j \in 1..Len(rows) : rows[j][key] = k }

\* pd.merge(..., how='inner'): only the keys present on both sides.
InnerJoin(o, p, key) ==
    LET both == SelectSeq(o.rows, LAMBDA r : MatchIdx(p.rows, key, r[key]) # {})
    IN [i \in 1..Len(both) |->
          [c \in o.cols \cup p.cols |->
             IF c \in o.cols THEN both[i][c]
             ELSE p.rows[CHOOSE j \in MatchIdx(p.rows, key, both[i][key]) : TRUE][c]]]

\* pd.merge(orders_df, payments_df, on=merge_key, how='outer'): every left row,
\* joined with its right match or with missing cells, then the right rows
\* without a left match.  The row order of the join is not relied upon by the
\* caller, which sorts afterwards.
OuterJoin(o, p, key) ==
    LET left == [i \in 1..Len(o.rows) |->
                   LET m == MatchIdx(p.rows, key, o.rows[i][key])
                   IN [c \in o.cols \cup p.cols |->
                         IF c \in o.cols THEN o.rows[i][c]
                         ELSE IF m = {} THEN Null
                         ELSE p.rows[CHOOSE j \in m : TRUE][c]]]
        ronly == SelectSeq(p.rows, LAMBDA r : MatchIdx(o.rows, key, r[key]) = {})
        right == [i \in 1..Len(ronly) |->
                    [c \in o.cols \cup p.cols |->
                       IF c \in p.cols THEN ronly[i][c] ELSE Null]]
    IN left \o right

\* merged_df.select_dtypes(include=['number']).columns
NumericColumns(cols) == cols \ ObjectCols

\* fillna called without keeping its result.
FillnaDiscarded(rows, cols, v) == rows

\* merged_df[numeric_columns] = merged_df[numeric_columns].fillna(fill_value)
Fillna(rows, cols, v) ==
    [i \in 1..Len(rows) |->
       [c \in DOMAIN rows[i] |->
          IF c \in cols /\ IsNull(rows[i][c]) THEN Some(v) ELSE rows[i][c]]]

RECURSIVE InsertSorted(_, _, _)
InsertSorted(r, s, key) ==
    IF s = <<>> THEN <<r>>
    ELSE IF r[key] < Head(s)[key] THEN <<r>> \o s
    ELSE <<Head(s)>> \o InsertSorted(r, Tail(s), key)

\* merged_df.sort_values(merge_key).reset_index(drop=True): rows already in
\* order stay as they are, the others are sorted by insertion.
RECURSIVE SortValues(_, _)
SortValues(rows, key) ==
    IF \A i \in 1..(Len(rows) - 1) : rows[i][key] <= rows[i + 1][key] THEN rows
    ELSE InsertSorted(Head(rows), SortValues(Tail(rows), key), key)

\* The rows of a frame, each with its index label in the field "index": a
\* frame made by pd.merge is labelled 0..n-1.
Labelled(rows) ==
    [i \in 1..Len(rows) |->
       [c \in DOMAIN rows[i] \cup {"index"} |->
          IF c = "index" THEN i - 1 ELSE rows[i][c]]]

\* A sort that leaves each row its old label.
KeepIndex(rows) == rows

\* reset_index(drop=True): the rows are labelled anew, 0..n-1 in their order.
ResetIndex(rows) ==
    [i \in 1..Len(rows) |-> [rows[i] EXCEPT !["index"] = i - 1]]

\* The index of a frame of labelled rows, and its rows without the label.
IndexOf(rows) == [i \in 1..Len(rows) |-> rows[i]["index"]]

Unlabelled(rows) ==
    [i \in 1..Len(rows) |-> [c \in DOMAIN rows[i] \ {"index"} |-> rows[i][c]]]

\* A check that looks for the key in the orders table only.
KeyMissingFromOrdersOnly(key, o, p) ==
    IF key \notin o.cols THEN <<"orders">> ELSE <<>>

\* if merge_key not in orders_df.columns: raise ...
\* if merge_key not in payments_df.columns: raise ...
\* The table the raised error names, <<>> when neither check raises.
KeyMissingFrom(key, o, p) ==
    IF key \notin o.cols THEN <<"orders">>
    ELSE IF key \notin p.cols THEN <<"payments">>
    ELSE <<>>

\* Returns [exc, msg, df]; exc is "none" on a normal return.  The message is
\* f"Merge key '{merge_key}' not found in {orders|payments} DataFrame".
merge_dataframes_with_fillna(o, p, key, v) ==
    IF KeyMissingFrom(key, o, p) # <<>>
    THEN [exc |-> "ValueError",
          msg |-> <<"Merge key", key, "not found in">> \o KeyMissingFrom(key, o, p),
          df  |-> EmptyDf]
    ELSE LET joined == OuterJoin(o, p, key)
             cols   == o.cols \cup p.cols
             filled == Fillna(joined, NumericColumns(cols), v)
             sorted == ResetIndex(SortValues(Labelled(filled), key))
         IN [exc |-> "none", msg |-> <<>>,
             df  |-> [cols |-> cols, rows |-> Unlabelled(sorted),
                      index |-> IndexOf(sorted)]]

-----------------------------------------------------------------------------
(* calculate_payment_coverage *)

Abs(x) == IF x < 0 THEN -x ELSE x

RECURSIVE GCD(_, _)
GCD(a, b) == IF b = 0 THEN a ELSE GCD(b, a % b)

\* The quotient p / r for r > 0, as a fraction <<num, den>> in lowest terms.
Ratio(p, r) == LET g == GCD(Abs(p), r) IN <<p \div g, r \div g>>

Zero == <<0, 1>>

One == <<1, 1>>

\* A coverage that starts from the payment_coverage the row already holds.
RowCoverageAccumulating(row) ==
    IF "payment_coverage" \in DOMAIN row /\ ~IsNull(row.payment_coverage)
    THEN Ratio(row.payment_coverage[1], 2 * row.payment_coverage[2])
    ELSE IF ~IsNull(row.revenue) /\ row.revenue[1] > 0
    THEN IF IsNull(row.paid_amount) THEN Null
         ELSE Ratio(row.paid_amount[1], row.revenue[1])
    ELSE Zero

\* row['paid_amount'] / row['revenue'] if row['revenue'] > 0 else 0.0
\* (a comparison with NaN is false; a quotient with a NaN numerator is NaN)
RowCoverage(row) ==
    IF ~IsNull(row.revenue) /\ row.revenue[1] > 0
    THEN IF IsNull(row.paid_amount) THEN Null
         ELSE Ratio(row.paid_amount[1], row.revenue[1])
    ELSE Zero

NoClip(c) == c

\* Series.clip(upper=1.0): NaN stays NaN, nothing is raised from below.
ClipUpper(c) ==
    IF IsNull(c) THEN c
    ELSE IF c[1] > c[2] THEN One
    ELSE c

\* required_columns = ['revenue', 'paid_amount']
CoverageRequired == <<"revenue", "paid_amount">>

\* missing_columns = [col for col in required_columns if col not in df.columns]
MissingColumns(required, cols) == SelectSeq(required, LAMBDA c : c \notin cols)

\* Returns [exc, msg, df].  The validation message is
\* f"Missing required columns: {missing_columns}".  On a table without rows
\* DataFrame.apply(axis=1) gives back a frame, not a series, and the column
\* assignment raises inside the try block.
calculate_payment_coverage(df) ==
    IF MissingColumns(CoverageRequired, df.cols) # <<>>
    THEN [exc |-> "ValueError",
          msg |-> <<"Missing required columns",
                    MissingColumns(CoverageRequired, df.cols)>>,
          df  |-> EmptyDf]
    ELSE IF df.rows = <<>>
    THEN [exc |-> "RuntimeError", msg |-> <<"Could not calculate payment coverage">>,
          df |-> EmptyDf]
    ELSE [exc |-> "none", msg |-> <<>>,
          df  |-> [cols |-> df.cols \cup {"payment_coverage"},
                   rows |-> [i \in 1..Len(df.rows) |->
                               [c \in df.cols \cup {"payment_coverage"} |->
                                  IF c = "payment_coverage"
                                  THEN ClipUpper(RowCoverage(df.rows[i]))
                                  ELSE df.rows[i][c]]]]]

-----------------------------------------------------------------------------
(* get_analytics_summary *)

\* required_columns of the summary: the date column is not among them.
SummaryRequired ==
    <<"revenue", "orders_cnt", "payments_cnt", "paid_amount", "payment_coverage">>

\* df.empty: no rows, or no columns
IsEmptyDf(df) == df.rows = <<>> \/ df.cols = {}

\* The non-null cells of a column (the reductions of pandas skip NaN).
NonNull(rows, c) ==
    SelectSeq([i \in 1..Len(rows) |-> rows[i][c]], LAMBDA x : ~IsNull(x))

RECURSIVE SumCells(_)
SumCells(cells) == IF cells = <<>> THEN 0 ELSE Head(cells)[1] + SumCells(Tail(cells))

\* Series.sum() of a column of numbers
ColSum(rows, c) == SumCells(NonNull(rows, c))

\* Series.mean(): the fraction sum / count, NaN when every cell is null
ColMean(rows, c) ==
    IF NonNull(rows, c) = <<>> THEN Null
    ELSE LET t == ColSum(rows, c)
             k == Len(NonNull(rows, c))
             g == GCD(Abs(t), k)
         IN <<t \div g, k \div g>>

\* Series.max(), Series.min(): NaN when every cell is null
ColMax(rows, c) ==
    IF NonNull(rows, c) = <<>> THEN Null
    ELSE CHOOSE x \in Range(NonNull(rows, c)) :
            \A y \in Range(NonNull(rows, c)) : y[1] <= x[1]

ColMin(rows, c) ==
    IF NonNull(rows, c) = <<>> THEN Null
    ELSE CHOOSE x \in Range(NonNull(rows, c)) :
            \A y \in Range(NonNull(rows, c)) : x[1] <= y[1]

\* Order and sum of the coverage fractions <<num, den>>, den > 0.
FracLe(a, b) == a[1] * b[2] <= b[1] * a[2]

FracAdd(a, b) == Ratio(a[1] * b[2] + b[1] * a[2], a[2] * b[2])

RECURSIVE FracSum(_)
FracSum(cells) == IF cells = <<>> THEN Zero ELSE FracAdd(Head(cells), FracSum(Tail(cells)))

FracMean(rows, c) ==
    IF NonNull(rows, c) = <<>> THEN Null
    ELSE LET t == FracSum(NonNull(rows, c))
         IN Ratio(t[1], t[2] * Len(NonNull(rows, c)))

FracMax(rows, c) ==
    IF NonNull(rows, c) = <<>> THEN Null
    ELSE CHOOSE x \in Range(NonNull(rows, c)) :
            \A y \in Range(NonNull(rows, c)) : FracLe(y, x)

FracMin(rows, c) ==
    IF NonNull(rows, c) = <<>> THEN Null
    ELSE CHOOSE x \in Range(NonNull(rows, c)) :
            \A y \in Range(NonNull(rows, c)) : FracLe(x, y)

\* int((df['payment_coverage'] >= 1.0).sum()): a NaN compares false
DaysWithFullCoverage(rows) ==
    Cardinality({ i \in 1..Len(rows) :
        ~IsNull(rows[i].payment_coverage)
        /\ rows[i].payment_coverage[1] >= rows[i].payment_coverage[2] })

\* The statistics of the try block, for a table that holds every column read.
SummaryStats(df) ==
    [total_days |-> Len(df.rows),
     date_range |-> [start |-> CHOOSE d \in DatesOf(df.rows) :
                                  \A e \in DatesOf(df.rows) : d <= e,
                     end   |-> CHOOSE d \in DatesOf(df.rows) :
                                  \A e \in DatesOf(df.rows) : e <= d],
     revenue |-> [total |-> ColSum(df.rows, "revenue"),
                  average_daily |-> ColMean(df.rows, "revenue"),
                  max_daily |-> ColMax(df.rows, "revenue"),
                  min_daily |-> ColMin(df.rows, "revenue")],
     orders |-> [total |-> ColSum(df.rows, "orders_cnt"),
                 average_daily |-> ColMean(df.rows, "orders_cnt"),
                 max_daily |-> ColMax(df.rows, "orders_cnt"),
                 min_daily |-> ColMin(df.rows, "orders_cnt")],
     payments |-> [total |-> ColSum(df.rows, "payments_cnt"),
                   total_amount |-> ColSum(df.rows, "paid_amount"),
                   average_daily_count |-> ColMean(df.rows, "payments_cnt"),
                   average_daily_amount |-> ColMean(df.rows, "paid_amount")],
     payment_coverage |-> [average |-> FracMean(df.rows, "payment_coverage"),
                           max |-> FracMax(df.rows, "payment_coverage"),
                           min |-> FracMin(df.rows, "payment_coverage"),
                           days_with_full_coverage |-> DaysWithFullCoverage(df.rows)]]

\* Returns [exc, msg, stats].  The two validations raise ValueError before the
\* try block.  Inside it df['dt'] raises KeyError when the table has no date
\* column, and int() of the NaN that max() and min() give for a column of
\* nulls raises ValueError; the except clause re-raises both as RuntimeError.
get_analytics_summary(df) ==
    IF IsEmptyDf(df)
    THEN [exc |-> "ValueError", msg |-> <<"DataFrame is empty">>, stats |-> <<>>]
    ELSE IF MissingColumns(SummaryRequired, df.cols) # <<>>
    THEN [exc |-> "ValueError",
          msg |-> <<"Missing required columns",
                    MissingColumns(SummaryRequired, df.cols)>>,
          stats |-> <<>>]
    ELSE IF "dt" \notin df.cols
    THEN [exc |-> "RuntimeError", msg |-> <<"KeyError", "dt">>, stats |-> <<>>]
    ELSE IF NonNull(df.rows, "orders_cnt") = <<>>
    THEN [exc |-> "RuntimeError", msg |-> <<"ValueError", "int(nan)">>, stats |-> <<>>]
    ELSE [exc |-> "none", msg |-> <<>>, stats |-> SummaryStats(df)]

-----------------------------------------------------------------------------
(* The query connection and the destination engine *)

\* DEFAULT_BATCH_SIZE
DEFAULT_BATCH_SIZE == 1000

\* The row counts tried (the 2500-row table of the batching example is added
\* in ArgsOf).
RowCounts == 0..MaxRows

BatchSizes == (-1..MaxBatch) \cup {DEFAULT_BATCH_SIZE}

Min(a, b) == IF a < b THEN a ELSE b

\* Columns of the table handed to the storage operations; its rows are
\* numbered 1..n, row i holding date i and the amount i (in thousandths).
\* A stored row with a number k <= 0 was in the table before the operation
\* started and holds date -k and amount -k: row -1 is an older copy of row 1.
OrigCols == <<"dt", "revenue">>

RowOf(id) == [dt |-> Abs(id), revenue |-> Abs(id) * 1000]

OrigDf(n) == [cols |-> OrigCols, dtype |-> args.dtypes.revenue,
              rows |-> [i \in 1..n |-> RowOf(i)]]

NoDf == [cols |-> <<>>, dtype |-> "none", rows |-> <<>>]

NoReport == [made |-> FALSE, row_count_match |-> FALSE, column_count_match |-> FALSE,
             columns_match |-> FALSE, data_types_compatible |-> FALSE,
             sample_data_match |-> FALSE, verification_passed |-> FALSE]

NoResult == [made |-> FALSE, success |-> FALSE, rows_inserted |-> 0]

InitLoc == [start_idx |-> 0, total_inserted |-> 0, persisted |-> NoDf,
            report |-> NoReport, results |-> NoResult, ret |-> 0,
            todo |-> 0, warnings |-> 0, create_statement |-> "unset",
            existing_schemas |-> <<>>, column_definitions |-> <<>>,
            query |-> <<>>, columns |-> <<>>, row_count |-> -1,
            frames |-> {}, final |-> "unset"]

\* The column lists a table that was there before may have.
StoredCols ==
    { OrigCols, <<"revenue", "dt">>, <<"dt">>, <<"revenue">>,
      <<"dt", "revenue", "loaded_at">> }

\* The type its amount column may have.
StoredTypes == { "DOUBLE", "BIGINT", "DECIMAL" }

NoCatalog == [schema |-> FALSE, table |-> FALSE, cols |-> <<>>, type |-> "none",
              rows |-> <<>>]

\* What the engine may hold before an operation starts: the namespace may or
\* may not exist; the table may exist, created by an earlier run or by another
\* tool, empty or with an older row.
Catalogs ==
    { NoCatalog, [NoCatalog EXCEPT !.schema = TRUE] }
    \cup { [schema |-> TRUE, table |-> TRUE, cols |-> c, type |-> t, rows |-> r] :
             c \in StoredCols, t \in StoredTypes, r \in {<<>>, <<0>>, <<-1>>} }

Top == stack[Len(stack)]

At(fn, pc) == stack # <<>> /\ Top.fn = fn /\ Top.pc = pc

Goto(pc) == [stack EXCEPT ![Len(stack)].pc = pc]

\* Call fn from the running frame, which resumes at `after`.
Call(fn, after) == Append(Goto(after), [fn |-> fn, pc |-> "entry"])

Pop == SubSeq(stack, 1, Len(stack) - 1)

Stmt(kind, rows, ok) == [kind |-> kind, rows |-> rows, ok |-> ok]

Running == [kind |-> "running", cause |-> "none", msg |-> <<>>]

\* The functions that close their cursor in a finally clause.  All do, except
\* create_trino_connection, which closes it in the straight-line path only.
HasFinally(fn) == fn # "create_trino_connection"

\* The exception class the outermost function re-raises from its except clause.
Wrapper(fn) == IF fn = "create_trino_connection" THEN "ConnectionError"
               ELSE "RuntimeError"

\* A normal return of the running frame: its finally clause closes its cursor;
\* the invoked operation has returned when it was the outermost frame.
Return ==
    /\ stack' = Pop
    /\ cursors' = cursors \ {Top.fn}
    /\ outcome' = IF Len(stack) = 1
                  THEN [kind |-> "returned", cause |-> "none", msg |-> <<>>]
                  ELSE outcome

\* An except clause that raises a fixed text.
WrapMessageGeneric(fn, msg) == <<fn>>

\* raise RuntimeError(f"Could not ...: {e}"): the text of the function's
\* except clause (named after the function) followed by the message of the
\* exception it caught.
WrapMessage(fn, msg) == <<fn>> \o msg

\* The message after the except clauses of the functions fns, outermost
\* first, each wrapped the exception of the next.
RECURSIVE Wrapped(_, _)
Wrapped(fns, msg) ==
    IF fns = <<>> THEN msg
    ELSE WrapMessage(Head(fns), Wrapped(Tail(fns), msg))

\* An exception raised in the running frame.  in_try tells whether the raise
\* is inside the frame's try block; every call of a callee is inside the
\* caller's try block, so an exception that crosses a frame is re-raised by
\* that frame's except clause, and each frame with a finally clause closes the
\* cursor it holds.  No handler sends a statement.
Raise(exc, in_try, cause) ==
    /\ stack' = <<>>
    /\ cursors' = cursors \ { f \in Range([i \in 1..Len(stack) |-> stack[i].fn]) :
                                HasFinally(f) }
    /\ outcome' = [kind  |-> IF in_try \/ Len(stack) > 1
                             THEN Wrapper(stack[1].fn) ELSE exc,
                   cause |-> cause,
                   msg   |-> Wrapped([i \in 1..(IF in_try THEN Len(stack)
                                                ELSE Len(stack) - 1) |-> stack[i].fn],
                                     <<cause>>)]

-----------------------------------------------------------------------------
(* create_iceberg_schema *)

SchemaEntry ==
    /\ At("create_iceberg_schema", "entry")
    /\ cursors' = cursors \cup {"create_iceberg_schema"}
    /\ stack' = Goto("show")
    /\ UNCHANGED <<op, args, log, catalog, outcome, loc>>
    /\ UNCHANGED dvars

\* DEFAULT_SCHEMA
DEFAULT_SCHEMA == "analytics"

\* existing_schemas = [row[0] for row in cursor.fetchall()]
ExistingSchemas(cat) == IF cat.schema THEN <<DEFAULT_SCHEMA>> ELSE <<>>

\* A membership test that never finds the namespace.
NeverListed(schema_name, existing_schemas) == FALSE

\* schema_name in existing_schemas
Listed(schema_name, existing_schemas) == schema_name \in Range(existing_schemas)

\* cursor.execute("SHOW SCHEMAS FROM iceberg"); return True when listed
SchemaShow ==
    /\ At("create_iceberg_schema", "show")
    /\ \E ok \in BOOLEAN :
          /\ log' = Append(log, Stmt("SHOW_SCHEMAS", <<>>, ok))
          /\ IF ~ok
             THEN Raise("Exception", TRUE, "statement") /\ UNCHANGED loc
             ELSE /\ loc' = [loc EXCEPT !.existing_schemas = ExistingSchemas(catalog)]
                  /\ IF Listed(DEFAULT_SCHEMA, ExistingSchemas(catalog)) THEN Return
                     ELSE /\ stack' = Goto("create")
                          /\ UNCHANGED <<cursors, outcome>>
    /\ UNCHANGED <<op, args, catalog>>
    /\ UNCHANGED dvars

\* cursor.execute("CREATE SCHEMA IF NOT EXISTS iceberg.<schema>")
SchemaCreate ==
    /\ At("create_iceberg_schema", "create")
    /\ \E ok \in BOOLEAN :
          /\ log' = Append(log, Stmt("CREATE_SCHEMA", <<>>, ok))
          /\ IF ok THEN Return /\ catalog' = [catalog EXCEPT !.schema = TRUE]
             ELSE Raise("Exception", TRUE, "statement") /\ UNCHANGED catalog
    /\ UNCHANGED <<op, args, loc>>
    /\ UNCHANGED dvars

-----------------------------------------------------------------------------
(* create_iceberg_table_from_dataframe *)

\* if df.empty: raise ValueError; cursor = connection.cursor();
\* create_iceberg_schema(connection, schema_name)
TableEntry ==
    /\ At("create_iceberg_table_from_dataframe", "entry")
    /\ IF args.n = 0
       THEN Raise("ValueError", FALSE, "empty_df")
       ELSE /\ cursors' = cursors \cup {"create_iceberg_table_from_dataframe"}
            /\ stack' = Call("create_iceberg_schema",
                             IF args.drop_if_exists THEN "drop" ELSE "create")
            /\ UNCHANGED outcome
    /\ UNCHANGED <<op, args, log, catalog, loc>>
    /\ UNCHANGED dvars

\* A handler that lets the failure of the DROP statement through.
DropErrorPropagates(ok) == ~ok

\* except Exception as e: logger.warning(...): whether the failure of the DROP
\* statement leaves the inner try block as an exception
DropErrorRaised(ok) == FALSE

\* cursor.execute("DROP TABLE IF EXISTS ..."); a failure is logged, not raised
TableDrop ==
    /\ At("create_iceberg_table_from_dataframe", "drop")
    /\ \E ok \in BOOLEAN :
          /\ log' = Append(log, Stmt("DROP_TABLE", <<>>, ok))
          /\ catalog' = IF ok THEN [NoCatalog EXCEPT !.schema = catalog.schema]
                        ELSE catalog
          /\ IF DropErrorRaised(ok)
             THEN Raise("Exception", TRUE, "statement")
             ELSE /\ stack' = Goto("create")
                  /\ UNCHANGED <<cursors, outcome>>
    /\ UNCHANGED <<op, args, loc>>
    /\ UNCHANGED dvars

\* str(dtype): the name of a pandas dtype, as its sequence of characters.
\* The nullable integer dtype is spelled with a capital I.
DtypeStr(dtype) ==
    CASE dtype = "int64"   -> <<"i", "n", "t", "6", "4">>
      [] dtype = "int32"   -> <<"i", "n", "t", "3", "2">>
      [] dtype = "uint8"   -> <<"u", "i", "n", "t", "8">>
      [] dtype = "Int64"   -> <<"I", "n", "t", "6", "4">>
      [] dtype = "float64" -> <<"f", "l", "o", "a", "t", "6", "4">>
      [] dtype = "bool"    -> <<"b", "o", "o", "l">>
      [] dtype = "object"  -> <<"o", "b", "j", "e", "c", "t">>
      [] dtype = "category" -> <<"c", "a", "t", "e", "g", "o", "r", "y">>
      [] dtype = "datetime64[ns]" ->
            <<"d", "a", "t", "e", "t", "i", "m", "e", "6", "4", "[", "n", "s", "]">>
      [] dtype = "timedelta64[ns]" ->
            <<"t", "i", "m", "e", "d", "e", "l", "t", "a", "6", "4", "[", "n", "s", "]">>
      [] dtype = "double[pyarrow]" ->
            <<"d", "o", "u", "b", "l", "e", "[", "p", "y", "a", "r", "r", "o", "w", "]">>
      [] dtype = "timestamp[ns][pyarrow]" ->
            <<"t", "i", "m", "e", "s", "t", "a", "m", "p", "[", "n", "s", "]",
              "[", "p", "y", "a", "r", "r", "o", "w", "]">>
      [] dtype = "date32[day][pyarrow]" ->
            <<"d", "a", "t", "e", "3", "2", "[", "d", "a", "y", "]",
              "[", "p", "y", "a", "r", "r", "o", "w", "]">>

\* The dtypes a column of the table handed to the storage operations may have.
Dtypes ==
    { "int64", "int32", "uint8", "Int64", "float64", "bool", "object", "category",
      "datetime64[ns]", "timedelta64[ns]", "double[pyarrow]",
      "timestamp[ns][pyarrow]", "date32[day][pyarrow]" }

\* The dtypes of the amount column.
AmountDtypes == { "float64", "int64", "Int64" }

\* The dtypes of the date column and of the amount column of a table handed
\* to verify_data_persistence.
DateDtypes == { "object", "datetime64[ns]" }

NumberDtypes == { "float64", "int64" }

\* The dtypes of the table the pipeline builds: dates as objects, amounts as
\* floats.
DefaultDtypes == [dt |-> "object", revenue |-> "float64"]

\* sub in s, for Python strings
Contains(s, sub) ==
    \E i \in 1..(Len(s) - Len(sub) + 1) : SubSeq(s, i, i + Len(sub) - 1) = sub

\* A type inference that looks for 'date' before 'datetime'.
map_dtype_date_first(dtype_str, column_name) ==
    IF Contains(dtype_str, <<"i", "n", "t">>) THEN "BIGINT"
    ELSE IF Contains(dtype_str, <<"f", "l", "o", "a", "t">>)
            \/ Contains(dtype_str, <<"d", "o", "u", "b", "l", "e">>) THEN "DOUBLE"
    ELSE IF Contains(dtype_str, <<"b", "o", "o", "l">>) THEN "BOOLEAN"
    ELSE IF Contains(dtype_str, <<"d", "a", "t", "e">>) THEN "DATE"
    ELSE IF Contains(dtype_str, <<"d", "a", "t", "e", "t", "i", "m", "e">>)
            \/ Contains(dtype_str, <<"t", "i", "m", "e", "s", "t", "a", "m", "p">>)
         THEN "TIMESTAMP(3)"
    ELSE IF column_name = "dt" THEN "DATE"
    ELSE "VARCHAR"

\* map_dtype_to_trino(dtype, column_name): the first matching branch wins, the
\* column name is looked at after every test on the dtype.
map_dtype_to_trino(dtype_str, column_name) ==
    IF Contains(dtype_str, <<"i", "n", "t">>) THEN "BIGINT"
    ELSE IF Contains(dtype_str, <<"f", "l", "o", "a", "t">>)
            \/ Contains(dtype_str, <<"d", "o", "u", "b", "l", "e">>) THEN "DOUBLE"
    ELSE IF Contains(dtype_str, <<"b", "o", "o", "l">>) THEN "BOOLEAN"
    ELSE IF Contains(dtype_str, <<"d", "a", "t", "e", "t", "i", "m", "e">>)
            \/ Contains(dtype_str, <<"t", "i", "m", "e", "s", "t", "a", "m", "p">>)
         THEN "TIMESTAMP(3)"
    ELSE IF Contains(dtype_str, <<"d", "a", "t", "e">>) THEN "DATE"
    ELSE IF column_name = "dt" THEN "DATE"
    ELSE "VARCHAR"

\* for column_name, dtype in df.dtypes.items():
\*     column_definitions.append(f"{column_name} {trino_type}")
ColumnDefinitions(cols, dtypes) ==
    [i \in 1..Len(cols) |->
        <<cols[i], map_dtype_to_trino(DtypeStr(dtypes[cols[i]]), cols[i])>>]

\* cursor.execute(create_table_sql); the engine refuses a table that exists
TableCreate ==
    /\ At("create_iceberg_table_from_dataframe", "create")
    /\ loc' = [loc EXCEPT !.column_definitions = ColumnDefinitions(OrigCols, args.dtypes)]
    /\ \E ok \in (IF catalog.table THEN {FALSE} ELSE BOOLEAN) :
          /\ log' = Append(log, Stmt("CREATE_TABLE", <<>>, ok))
          /\ IF ok
             THEN /\ Return
                  /\ catalog' =
                        [catalog EXCEPT
                           !.table = TRUE,
                           !.cols = OrigCols,
                           !.type = map_dtype_to_trino(DtypeStr(args.dtypes.revenue),
                                                       "revenue"),
                           !.rows = <<>>]
             ELSE Raise("Exception", TRUE, "statement") /\ UNCHANGED catalog
    /\ UNCHANGED <<op, args>>
    /\ UNCHANGED dvars

-----------------------------------------------------------------------------
(* format_value, the cell formatter of insert_dataframe_to_iceberg *)

\* Longest string cell and longest list cell tried.
MaxStrLen == 4

MaxListLen == 2

\* Characters of a string cell: a letter and the single quote.
Chars == { "a", "'" }

\* The values a cell may hold, each tagged with its Python type and written
\* v, the sequence of characters (or whole words) str(value) gives, for a
\* list the sequence of the forms of its elements: None, the float nan,
\* pandas.NaT, dates, datetimes, strings, ints, floats, bools,
\* decimal.Decimal numbers, a tuple, and lists of None and numbers (an ARRAY
\* column read from the engine comes back as lists).
Values ==
    { [tag |-> "None", v |-> <<"None">>], [tag |-> "nan", v |-> <<"nan">>],
      [tag |-> "NaT", v |-> <<"NaT">>], [tag |-> "tuple", v |-> <<"(1, 2)">>] }
    \cup { [tag |-> "date", v |-> <<d>>] : d \in {"2024-01-01", "2024-01-02"} }
    \cup { [tag |-> "datetime", v |-> <<d>>] :
             d \in {"2024-01-01 00:00:00", "2024-01-02 10:30:00"} }
    \cup { [tag |-> "str", v |-> w] : w \in UNION { [1..k -> Chars] : k \in 0..MaxStrLen } }
    \cup { [tag |-> "int", v |-> <<k>>] : k \in {"-1", "0", "1"} }
    \cup { [tag |-> "float", v |-> <<k>>] : k \in {"-1.5", "0.0", "1.5", "inf"} }
    \cup { [tag |-> "bool", v |-> <<b>>] : b \in {"True", "False"} }
    \cup { [tag |-> "Decimal", v |-> <<k>>] : k \in {"0", "1.50"} }
    \cup { [tag |-> "list", v |-> w] :
             w \in UNION { [1..k -> {"None", "1"}] : k \in 1..MaxListLen } }

\* pd.isna(value): True or False for a scalar, an array of them, one for each
\* element, for a list.
pd_isna(value) ==
    IF value.tag \in {"None", "nan", "NaT"} THEN [array |-> FALSE, of |-> <<TRUE>>]
    ELSE IF value.tag = "list"
    THEN [array |-> TRUE, of |-> [i \in 1..Len(value.v) |-> value.v[i] = "None"]]
    ELSE [array |-> FALSE, of |-> <<FALSE>>]

\* value.replace("'", "''")
RECURSIVE Escape(_)
Escape(w) ==
    IF w = <<>> THEN <<>>
    ELSE (IF Head(w) = "'" THEN <<"'", "'">> ELSE <<Head(w)>>) \o Escape(Tail(w))

\* str(value)
StrOf(value) ==
    IF value.tag = "list" THEN <<"[">> \o value.v \o <<"]">> ELSE value.v

\* format_value(value): the literal as [exc, kind, body], kind being NULL,
\* DATE (DATE '<body>'), quoted ('<body>') or bare (<body>).  The truth value
\* of pd.isna(value) is asked first: numpy raises ValueError for an array of
\* more than one element.
format_value(value) ==
    LET na == pd_isna(value)
    IN IF na.array /\ Len(na.of) > 1
       THEN [exc |-> "ValueError", kind |-> "none", body |-> <<>>]
       ELSE IF na.of[1]
       THEN [exc |-> "none", kind |-> "NULL", body |-> <<>>]
       ELSE IF value.tag \in {"date", "datetime"}
       THEN [exc |-> "none", kind |-> "DATE", body |-> StrOf(value)]
       ELSE IF value.tag = "str"
       THEN [exc |-> "none", kind |-> "quoted", body |-> Escape(value.v)]
       ELSE IF value.tag \in {"int", "float", "bool"}
       THEN [exc |-> "none", kind |-> "bare", body |-> StrOf(value)]
       ELSE [exc |-> "none", kind |-> "quoted", body |-> StrOf(value)]

-----------------------------------------------------------------------------
(* insert_dataframe_to_iceberg *)

\* A loop that stops before a final partial batch.
LoopFullBatchesOnly(start_idx, n, batch_size) ==
    batch_size > 0 /\ start_idx + batch_size <= n

\* for start_idx in range(0, len(df), batch_size): whether the loop body runs
\* at start_idx (a negative step makes the range empty).
LoopContinues(start_idx, n, batch_size) == batch_size > 0 /\ start_idx < n

\* end_idx = min(start_idx + batch_size, len(df)); df.iloc[start_idx:end_idx]
BatchRows(start_idx, n, batch_size) ==
    [i \in 1..(Min(start_idx + batch_size, n) - start_idx) |-> start_idx + i]

\* An except clause that sends the failed batch once more.
OnInsertErrorRetry(batch) == <<Stmt("INSERT", batch, FALSE)>>

\* The statements the except and finally clauses send after a failed INSERT:
\* the error is logged and re-raised, the cursor closed, nothing is sent.
OnInsertError(batch) == <<>>

\* if df.empty: raise ValueError; cursor = connection.cursor(); total_inserted = 0
InsertEntry ==
    /\ At("insert_dataframe_to_iceberg", "entry")
    /\ IF args.n = 0
       THEN Raise("ValueError", FALSE, "empty_df") /\ UNCHANGED loc
       ELSE /\ cursors' = cursors \cup {"insert_dataframe_to_iceberg"}
            /\ stack' = Goto("loop")
            /\ loc' = [loc EXCEPT !.start_idx = 0, !.total_inserted = 0]
            /\ UNCHANGED outcome
    /\ UNCHANGED <<op, args, log, catalog>>
    /\ UNCHANGED dvars

\* One iteration: build the VALUES list of the batch, cursor.execute(insert_sql),
\* total_inserted += len(batch_df).  The engine refuses a table that is absent
\* or lacks a column the statement names; a statement that fails stores
\* nothing.
InsertBatch ==
    /\ At("insert_dataframe_to_iceberg", "loop")
    /\ args.batch_size # 0
    /\ LoopContinues(loc.start_idx, args.n, args.batch_size)
    /\ LET batch == BatchRows(loc.start_idx, args.n, args.batch_size)
       IN \E ok \in (IF catalog.table /\ Range(OrigCols) \subseteq Range(catalog.cols)
                     THEN BOOLEAN ELSE {FALSE}) :
             /\ log' = Append(log, Stmt("INSERT", batch, ok))
                        \o (IF ok THEN <<>> ELSE OnInsertError(batch))
             /\ IF ok
                THEN /\ catalog' = [catalog EXCEPT !.rows = @ \o batch]
                     /\ loc' = [loc EXCEPT
                                  !.total_inserted = @ + Len(batch),
                                  !.start_idx = @ + args.batch_size]
                     /\ UNCHANGED <<stack, cursors, outcome>>
                ELSE /\ Raise("Exception", TRUE, "statement")
                     /\ UNCHANGED <<catalog, loc>>
    /\ UNCHANGED <<op, args>>
    /\ UNCHANGED dvars

\* The loop is over (or range() refused a zero step): return total_inserted.
InsertEnd ==
    /\ At("insert_dataframe_to_iceberg", "loop")
    /\ \/ /\ args.batch_size = 0
          /\ Raise("ValueError", TRUE, "range_step")
          /\ UNCHANGED loc
       \/ /\ args.batch_size # 0
          /\ ~LoopContinues(loc.start_idx, args.n, args.batch_size)
          /\ Return
          /\ loc' = [loc EXCEPT !.ret = loc.total_inserted]
    /\ UNCHANGED <<op, args, log, catalog>>
    /\ UNCHANGED dvars

-----------------------------------------------------------------------------
(* query_iceberg_table *)

\* min(5, len(original_df), len(persisted_df))
SampleSize == 5

\* abs(o - p) < 0.01, in thousandths
Tolerance == 10

\* The dtype pandas gives the amount column of a read-back: floats for DOUBLE,
\* integers for BIGINT, and object for the decimal.Decimal values of a DECIMAL
\* column or the strings of a VARCHAR column.
PandasDtype(type) ==
    CASE type = "DOUBLE" -> "float64"
      [] type = "BIGINT" -> "int64"
      [] OTHER -> "object"

\* What a read-back may differ in from what is stored: a shift of one amount
\* (in thousandths) on the first row or on the row after the sampled ones,
\* rows not returned, the order of the rows (the query has no ORDER BY; tried
\* on the tables of up to SampleSize + 1 rows).
ReadBacks ==
    { rb \in [delta : {0, 5, 10},
              at    : {1, SampleSize + 1},
              lost  : {0, 1},
              reversed : BOOLEAN] :
        rb.delta = 0 => rb.at = 1 }

Reverse(s) == [i \in 1..Len(s) |-> s[Len(s) + 1 - i]]

\* df = pd.DataFrame(cursor.fetchall(), columns=[desc[0] for desc in cursor.description])
\* for the stored rows `ids` of the table of the catalog.
ReadBack(cat, ids, rb) ==
    LET rows == [i \in 1..(IF Len(ids) > rb.lost THEN Len(ids) - rb.lost ELSE 0) |->
                   [dt |-> RowOf(ids[i]).dt,
                    revenue |-> RowOf(ids[i]).revenue
                                + (IF i = rb.at /\ cat.type = "DOUBLE" THEN rb.delta ELSE 0)]]
    IN [cols  |-> cat.cols,
        dtype |-> PandasDtype(cat.type),
        rows  |-> IF rb.reversed /\ Len(rows) <= SampleSize + 1
                  THEN Reverse(rows) ELSE rows]

\* Truth value of an optional string / optional integer argument.
TruthyStr(o) == o # Null /\ o[1] # ""

TruthyInt(o) == o # Null /\ o[1] # 0

NoOptions == [limit |-> Null, where_clause |-> Null, order_by |-> Null]

\* The options of the running query_iceberg_table call: the caller's when it
\* was invoked directly, none when verify_data_persistence calls it.
QueryOptions ==
    IF Len(stack) = 1
    THEN [limit |-> args.limit, where_clause |-> args.where_clause,
          order_by |-> args.order_by]
    ELSE NoOptions

\* query_parts, joined by " ": each part is a keyword and its operand.
BuildQuery(o) ==
    <<<<"SELECT * FROM", "iceberg.analytics.daily_analytics">>>>
    \o (IF TruthyStr(o.where_clause) THEN <<<<"WHERE", o.where_clause[1]>>>> ELSE <<>>)
    \o (IF TruthyStr(o.order_by) THEN <<<<"ORDER BY", o.order_by[1]>>>> ELSE <<>>)
    \o (IF TruthyInt(o.limit) THEN <<<<"LIMIT", o.limit[1]>>>> ELSE <<>>)

\* The rows the engine returns for the query: a LIMIT part cuts them.
Limited(rows, query) ==
    LET lims == SelectSeq(query, LAMBDA part : part[1] = "LIMIT")
    IN IF lims = <<>> THEN rows
       ELSE SubSeq(rows, 1, Min(Len(rows), lims[1][2]))

QueryEntry ==
    /\ At("query_iceberg_table", "entry")
    /\ cursors' = cursors \cup {"query_iceberg_table"}
    /\ stack' = Goto("select")
    /\ UNCHANGED <<op, args, log, catalog, outcome, loc>>
    /\ UNCHANGED dvars

\* cursor.execute("SELECT * FROM ..."); rows = cursor.fetchall(); return df
QuerySelect ==
    /\ At("query_iceberg_table", "select")
    /\ \E ok \in (IF catalog.table THEN BOOLEAN ELSE {FALSE}) :
          /\ log' = Append(log, Stmt("SELECT", <<>>, ok))
          /\ IF ok
             THEN /\ \E rb \in ReadBacks :
                        loc' = [loc EXCEPT
                                  !.query = BuildQuery(QueryOptions),
                                  !.persisted =
                                      ReadBack(catalog,
                                               Limited(catalog.rows,
                                                       BuildQuery(QueryOptions)),
                                               rb)]
                  /\ Return
             ELSE /\ Raise("Exception", TRUE, "statement")
                  /\ loc' = [loc EXCEPT !.query = BuildQuery(QueryOptions)]
    /\ UNCHANGED <<op, args, catalog>>
    /\ UNCHANGED dvars

-----------------------------------------------------------------------------
(* verify_data_persistence *)

\* str(original_df[col].dtype) and str(persisted_df[col].dtype): the dates of
\* a read-back are datetime.date objects.
OrigType(col) == args.dtypes[col]

PersType(pers, col) == IF col = "dt" THEN "object" ELSE pers.dtype

\* What the type loop has done so far: the flag of the report and the number
\* of warnings logged.
TypeLoopStart == [compatible |-> TRUE, warnings |-> 0]

\* A type loop that fails the check on a mismatch.
TypeCheckFailing(st, col, orig_type, pers_type) ==
    IF Contains(orig_type, <<"i", "n", "t">>) /\ Contains(pers_type, <<"i", "n", "t">>)
    THEN st
    ELSE IF /\ Contains(orig_type, <<"f", "l", "o", "a", "t">>)
            /\ \/ Contains(pers_type, <<"f", "l", "o", "a", "t">>)
               \/ Contains(pers_type, <<"i", "n", "t">>)
    THEN st
    ELSE IF col = "dt" THEN st
    ELSE IF orig_type # pers_type
    THEN [compatible |-> FALSE, warnings |-> st.warnings + 1]
    ELSE st

\* The body of the type loop for one column both tables have: the if / elif
\* chain on the two dtype names; its last branch logs a warning and no branch
\* assigns data_types_compatible.
TypeCheck(st, col, orig_type, pers_type) ==
    IF Contains(orig_type, <<"i", "n", "t">>) /\ Contains(pers_type, <<"i", "n", "t">>)
    THEN st
    ELSE IF /\ Contains(orig_type, <<"f", "l", "o", "a", "t">>)
            /\ \/ Contains(pers_type, <<"f", "l", "o", "a", "t">>)
               \/ Contains(pers_type, <<"i", "n", "t">>)
    THEN st
    ELSE IF col = "dt" THEN st
    ELSE IF orig_type # pers_type
    THEN [st EXCEPT !.warnings = @ + 1]
    ELSE st

\* for col in original_df.columns: if col in persisted_df.columns: ...
RECURSIVE TypeLoop(_, _, _)
TypeLoop(cols, pers, st) ==
    IF cols = <<>> THEN st
    ELSE LET col == Head(cols)
         IN TypeLoop(Tail(cols), pers,
                     IF col \in Range(pers.cols)
                     THEN TypeCheck(st, col, DtypeStr(OrigType(col)),
                                    DtypeStr(PersType(pers, col)))
                     ELSE st)

\* The number of warnings the type loop logs.
TypeWarnings(pers) == TypeLoop(OrigCols, pers, TypeLoopStart).warnings

\* verification_results['data_types_compatible'] after the type loop
DataTypesCompatible(pers) == TypeLoop(OrigCols, pers, TypeLoopStart).compatible

\* original_df.select_dtypes(include=['number']): the dtypes, among those of
\* the model, that pandas counts as numbers.
NumericDtypes == { "int64", "int32", "uint8", "Int64", "float64" }

\* A sample that takes the whole table.
WholeFrame(rows, k) == rows

\* DataFrame.head(k)
Head_(rows, k) == SubSeq(rows, 1, Min(k, Len(rows)))

\* The sampled comparison: the first sample_size rows of each table sorted by
\* the original's first column; a numeric column of the original that the
\* read-back has must agree exactly (Series.equals, dtype included) or, pair
\* by pair (zip), within the tolerance.  An exception makes the except clause
\* set False: sort_values raises on a read-back without the first column, the
\* subtraction raises on decimal.Decimal values.
SampleDataMatch(orig, pers) ==
    IF orig.rows = <<>> \/ pers.rows = <<>> THEN TRUE
    ELSE IF orig.cols[1] \notin Range(pers.cols) THEN FALSE
    ELSE LET k  == Min(SampleSize, Min(Len(orig.rows), Len(pers.rows)))
             os == Head_(SortValues(orig.rows, orig.cols[1]), k)
             ps == Head_(SortValues(pers.rows, orig.cols[1]), k)
         IN \A col \in { c \in Range(orig.cols) : OrigType(c) \in NumericDtypes } :
               col \in Range(pers.cols) =>
                  \/ /\ orig.dtype = pers.dtype
                     /\ Len(os) = Len(ps)
                     /\ \A i \in 1..Len(os) : os[i][col] = ps[i][col]
                  \/ /\ pers.dtype # "object"
                     /\ \A i \in 1..Min(Len(os), Len(ps)) :
                           Abs(os[i][col] - ps[i][col]) < Tolerance

\* A comparison of the column names that ignores their order.
ColumnsMatchAnyOrder(orig, pers) == Range(orig.cols) = Range(pers.cols)

\* len(original_df) == len(persisted_df)
RowCountMatch(orig, pers) == Len(orig.rows) = Len(pers.rows)

\* len(original_df.columns) == len(persisted_df.columns)
ColumnCountMatch(orig, pers) == Len(orig.cols) = Len(pers.cols)

\* list(original_df.columns) == list(persisted_df.columns)
ColumnsMatch(orig, pers) == orig.cols = pers.cols

AnyOf(flags) == \E i \in 1..Len(flags) : flags[i]

\* all([...]) over the five checks
AllOf(flags) == \A i \in 1..Len(flags) : flags[i]

\* persisted_df = query_iceberg_table(connection, table_name, schema_name)
VerifyEntry ==
    /\ At("verify_data_persistence", "entry")
    /\ stack' = Call("query_iceberg_table", "compute")
    /\ UNCHANGED <<op, args, cursors, log, catalog, outcome, loc>>
    /\ UNCHANGED dvars

\* The comparisons on the two in-memory tables, and return verification_results.
VerifyCompute ==
    /\ At("verify_data_persistence", "compute")
    /\ LET orig == OrigDf(args.n)
           pers == loc.persisted
           rcm  == RowCountMatch(orig, pers)
           ccm  == ColumnCountMatch(orig, pers)
           cm   == ColumnsMatch(orig, pers)
           dtc  == DataTypesCompatible(pers)
           sdm  == SampleDataMatch(orig, pers)
       IN loc' = [loc EXCEPT
                    !.warnings = TypeWarnings(pers),
                    !.report = [made |-> TRUE,
                                row_count_match |-> rcm,
                                column_count_match |-> ccm,
                                columns_match |-> cm,
                                data_types_compatible |-> dtc,
                                sample_data_match |-> sdm,
                                verification_passed |->
                                    AllOf(<<rcm, ccm, cm, dtc, sdm>>)]]
    /\ Return
    /\ UNCHANGED <<op, args, log, catalog>>
    /\ UNCHANGED dvars

-----------------------------------------------------------------------------
(* get_iceberg_table_info *)

InfoEntry ==
    /\ At("get_iceberg_table_info", "entry")
    /\ cursors' = cursors \cup {"get_iceberg_table_info"}
    /\ stack' = Goto("describe")
    /\ UNCHANGED <<op, args, log, catalog, outcome, loc>>
    /\ UNCHANGED dvars

\* cursor.execute("DESCRIBE ..."); table_info['columns'] = [...], then
\* cursor.execute("SELECT COUNT(*) ..."); table_info['row_count'] = row_count
InfoQuery ==
    /\ \/ At("get_iceberg_table_info", "describe")
       \/ At("get_iceberg_table_info", "count")
    /\ \E ok \in (IF catalog.table THEN BOOLEAN ELSE {FALSE}) :
          /\ log' = Append(log, Stmt(IF Top.pc = "describe" THEN "DESCRIBE" ELSE "COUNT",
                                     <<>>, ok))
          /\ IF ok
             THEN /\ stack' = Goto(IF Top.pc = "describe" THEN "count" ELSE "show_create")
                  /\ loc' = IF Top.pc = "describe"
                            THEN [loc EXCEPT !.columns = catalog.cols,
                                             !.row_count = -1,
                                             !.create_statement = "unset"]
                            ELSE [loc EXCEPT !.row_count = Len(catalog.rows)]
                  /\ UNCHANGED <<cursors, outcome>>
             ELSE Raise("Exception", TRUE, "statement") /\ UNCHANGED loc
    /\ UNCHANGED <<op, args, catalog>>
    /\ UNCHANGED dvars

\* cursor.execute("SHOW CREATE TABLE ..."); a failure leaves create_statement None
InfoShowCreate ==
    /\ At("get_iceberg_table_info", "show_create")
    /\ \E ok \in BOOLEAN :
          /\ log' = Append(log, Stmt("SHOW_CREATE_TABLE", <<>>, ok))
          /\ loc' = [loc EXCEPT !.create_statement =
                                    IF ok THEN "CREATE TABLE ..." ELSE "None"]
    /\ Return
    /\ UNCHANGED <<op, args, catalog>>
    /\ UNCHANGED dvars

-----------------------------------------------------------------------------
(* save_analytics_to_iceberg *)

\* The five steps of the workflow, each a call inside the try block.
\* A workflow that inserts before it creates the table.
SaveStepsInsertFirst ==
    << "create_iceberg_schema", "insert_dataframe_to_iceberg",
       "create_iceberg_table_from_dataframe", "verify_data_persistence",
       "get_iceberg_table_info" >>

SaveSteps ==
    << "create_iceberg_schema", "create_iceberg_table_from_dataframe",
       "insert_dataframe_to_iceberg", "verify_data_persistence",
       "get_iceberg_table_info" >>

SavePcs == << "entry", "step2", "step3", "step4", "step5", "results" >>

SaveCall ==
    \E i \in 1..Len(SaveSteps) :
        /\ At("save_analytics_to_iceberg", SavePcs[i])
        /\ stack' = Call(SaveSteps[i], SavePcs[i + 1])
        /\ UNCHANGED <<op, args, cursors, log, catalog, outcome, loc>>
        /\ UNCHANGED dvars

SuccessAlways(passed) == TRUE

\* results['success'] = True, set to False when verification did not pass
SuccessFlag(passed) == IF passed THEN TRUE ELSE FALSE

SaveResults ==
    /\ At("save_analytics_to_iceberg", "results")
    /\ loc' = [loc EXCEPT !.results =
                 [made |-> TRUE,
                  success |-> SuccessFlag(loc.report.verification_passed),
                  rows_inserted |-> loc.ret]]
    /\ Return
    /\ UNCHANGED <<op, args, log, catalog>>
    /\ UNCHANGED dvars

-----------------------------------------------------------------------------
(* aggregate_daily_orders, aggregate_daily_payments, list_iceberg_tables,
   execute_sql_query: one cursor, one statement, try / except / finally *)

SingleQueryOps ==
    { "aggregate_daily_orders", "aggregate_daily_payments",
      "list_iceberg_tables", "execute_sql_query" }

SingleEntry ==
    \E fn \in SingleQueryOps :
        /\ At(fn, "entry")
        /\ cursors' = cursors \cup {fn}
        /\ stack' = Goto("execute")
        /\ UNCHANGED <<op, args, log, catalog, outcome, loc>>
        /\ UNCHANGED dvars

\* The statement each of them sends.
QueryKind(fn) ==
    CASE fn = "aggregate_daily_orders" -> "ORDERS_QUERY"
      [] fn = "aggregate_daily_payments" -> "PAYMENTS_QUERY"
      [] OTHER -> "QUERY"

\* cursor.execute(query); cursor.fetchall(); build and return the frame.
\* Either call may fail; the except clause re-raises, the frame is returned
\* only when both went through.
SingleExecute ==
    \E fn \in SingleQueryOps :
        /\ At(fn, "execute")
        /\ \E r \in {"ok", "execute", "fetch"} :
              /\ log' = Append(log, Stmt(QueryKind(fn), <<>>, r = "ok"))
              /\ IF r = "ok"
                 THEN Return /\ loc' = [loc EXCEPT !.frames = @ \cup {fn}]
                 ELSE Raise("Exception", TRUE, r) /\ UNCHANGED loc
        /\ UNCHANGED <<op, args, catalog>>
        /\ UNCHANGED dvars

-----------------------------------------------------------------------------
(* create_final_analytics_dataframe *)

\* orders_df = aggregate_daily_orders(connection)
FinalOrders ==
    /\ At("create_final_analytics_dataframe", "entry")
    /\ stack' = Call("aggregate_daily_orders", "payments")
    /\ UNCHANGED <<op, args, cursors, log, catalog, outcome, loc>>
    /\ UNCHANGED dvars

\* payments_df = aggregate_daily_payments(connection)
FinalPayments ==
    /\ At("create_final_analytics_dataframe", "payments")
    /\ stack' = Call("aggregate_daily_payments", "merge")
    /\ UNCHANGED <<op, args, cursors, log, catalog, outcome, loc>>
    /\ UNCHANGED dvars

\* merge, coverage and column order on the two frames, in memory; return
\* final_df
FinalMerge ==
    /\ At("create_final_analytics_dataframe", "merge")
    /\ loc' = [loc EXCEPT !.final = "made"]
    /\ Return
    /\ UNCHANGED <<op, args, log, catalog>>
    /\ UNCHANGED dvars

-----------------------------------------------------------------------------
(* test_catalog_connectivity *)

CatalogsEntry ==
    /\ At("test_catalog_connectivity", "entry")
    /\ cursors' = cursors \cup {"test_catalog_connectivity"}
    /\ stack' = Goto("show_catalogs")
    /\ UNCHANGED <<op, args, log, catalog, outcome, loc>>
    /\ UNCHANGED dvars

\* cursor.execute("SHOW CATALOGS"); catalogs = [...]
CatalogsShow ==
    /\ At("test_catalog_connectivity", "show_catalogs")
    /\ \E ok \in BOOLEAN :
          /\ log' = Append(log, Stmt("SHOW_CATALOGS", <<>>, ok))
          /\ IF ok
             THEN /\ \E k \in 0..MaxCatalogs : loc' = [loc EXCEPT !.todo = k]
                  /\ stack' = Goto("each")
                  /\ UNCHANGED <<cursors, outcome>>
             ELSE /\ Raise("Exception", TRUE, "statement")
                  /\ UNCHANGED loc
    /\ UNCHANGED <<op, args, catalog>>
    /\ UNCHANGED dvars

\* for catalog in catalogs: cursor.execute("SHOW SCHEMAS FROM <catalog>"), a
\* failure marks the catalog False and the loop goes on; then return
CatalogsEach ==
    /\ At("test_catalog_connectivity", "each")
    /\ \/ /\ loc.todo > 0
          /\ \E ok \in BOOLEAN :
                log' = Append(log, Stmt("SHOW_SCHEMAS_FROM", <<>>, ok))
          /\ loc' = [loc EXCEPT !.todo = @ - 1]
          /\ UNCHANGED <<stack, cursors, outcome>>
       \/ /\ loc.todo = 0
          /\ Return
          /\ UNCHANGED <<log, loc>>
    /\ UNCHANGED <<op, args, catalog>>
    /\ UNCHANGED dvars

-----------------------------------------------------------------------------
(* create_trino_connection *)

\* connection = trino.dbapi.connect(...); cursor = connection.cursor()
ConnectEntry ==
    /\ At("create_trino_connection", "entry")
    /\ \E ok \in BOOLEAN :
          IF ok
          THEN /\ cursors' = cursors \cup {"create_trino_connection"}
               /\ stack' = Goto("select_1")
               /\ UNCHANGED outcome
          ELSE Raise("Exception", TRUE, "connect")
    /\ UNCHANGED <<op, args, log, catalog, loc>>
    /\ UNCHANGED dvars

\* cursor.execute("SELECT 1"); result = cursor.fetchone(); cursor.close();
\* if result[0] != 1: raise ConnectionError.  The close is not in a finally
\* clause: a failing execute or fetchone skips it.
ConnectSelect ==
    /\ At("create_trino_connection", "select_1")
    /\ \E ok \in BOOLEAN, result \in {0, 1} :
          /\ log' = Append(log, Stmt("SELECT_1", <<>>, ok))
          /\ IF ~ok THEN Raise("Exception", TRUE, "statement")
             ELSE IF result # 1
             THEN /\ stack' = <<>>
                  /\ cursors' = cursors \ {"create_trino_connection"}
                  /\ outcome' = [kind |-> "ConnectionError", cause |-> "test_failed",
                                 msg |-> WrapMessage("create_trino_connection",
                                                     <<"test_failed">>)]
             ELSE Return
    /\ UNCHANGED <<op, args, catalog, loc>>
    /\ UNCHANGED dvars

-----------------------------------------------------------------------------
(* The caller *)

Ops ==
    { "create_iceberg_schema", "create_iceberg_table_from_dataframe",
      "insert_dataframe_to_iceberg", "query_iceberg_table",
      "verify_data_persistence", "get_iceberg_table_info",
      "save_analytics_to_iceberg", "test_catalog_connectivity",
      "create_trino_connection", "create_final_analytics_dataframe" }
    \cup SingleQueryOps

\* The arguments an operation is invoked with.  save_analytics_to_iceberg
\* passes neither batch_size nor drop_if_exists, so the defaults apply.
DefaultArgs ==
    [n |-> 0, batch_size |-> DEFAULT_BATCH_SIZE, drop_if_exists |-> TRUE,
     dtypes |-> DefaultDtypes, limit |-> Null, where_clause |-> Null, order_by |-> Null]

\* The optional arguments of query_iceberg_table tried: absent, empty or zero,
\* and a proper value.
WhereClauses == { Null, Some(""), Some("revenue > 0") }

OrderBys == { Null, Some(""), Some("dt") }

Limits == { Null } \cup { Some(k) : k \in 0..MaxRows }

ArgsOf(fn) ==
    IF fn = "insert_dataframe_to_iceberg"
    THEN { [DefaultArgs EXCEPT !.n = n, !.batch_size = b] :
             n \in RowCounts, b \in BatchSizes }
         \cup { [DefaultArgs EXCEPT !.n = 2500] }
    ELSE IF fn = "create_iceberg_table_from_dataframe"
    THEN { [DefaultArgs EXCEPT !.n = n, !.drop_if_exists = d,
                               !.dtypes = [dt |-> t1, revenue |-> t2]] :
             n \in RowCounts, d \in BOOLEAN, t1 \in Dtypes, t2 \in AmountDtypes }
    ELSE IF fn = "save_analytics_to_iceberg"
    THEN { [DefaultArgs EXCEPT !.n = n] : n \in RowCounts \cup {SampleSize + 1, 2500} }
    ELSE IF fn = "verify_data_persistence"
    THEN { [DefaultArgs EXCEPT !.n = n, !.dtypes = [dt |-> t1, revenue |-> t2]] :
             n \in RowCounts \cup {SampleSize + 1, 2500},
             t1 \in DateDtypes, t2 \in NumberDtypes }
    ELSE IF fn = "query_iceberg_table"
    THEN { [DefaultArgs EXCEPT !.limit = l, !.where_clause = w, !.order_by = o] :
             l \in Limits, w \in WhereClauses, o \in OrderBys }
    ELSE { DefaultArgs }

Invoke ==
    /\ op = "idle"
    /\ \E fn \in Ops :
          /\ op' = fn
          /\ args' \in ArgsOf(fn)
          /\ stack' = <<[fn |-> fn, pc |-> "entry"]>>
    /\ outcome' = Running
    /\ UNCHANGED <<cursors, log, catalog, loc>>
    /\ UNCHANGED dvars

IdleIO ==
    /\ op = "idle"
    /\ args = DefaultArgs
    /\ stack = <<>>
    /\ cursors = {}
    /\ log = <<>>
    /\ outcome = [kind |-> "idle", cause |-> "none", msg |-> <<>>]
    /\ loc = InitLoc

-----------------------------------------------------------------------------
(* The data pipeline as a state machine *)

InputPairs ==
    { pr \in (KeyedOrders \cup KeylessOrders) \X (KeyedPayments \cup KeylessPayments) :
        /\ (pr[1] \in KeylessOrders => pr[2] \in SmallPayments \cup KeylessPayments)
        /\ (pr[2] \in KeylessPayments => pr[1] \in SmallOrders \cup KeylessOrders) }

NoAgain == [own |-> [exc |-> "unset", msg |-> <<>>, df |-> EmptyDf],
            same |-> [exc |-> "unset", msg |-> <<>>, df |-> EmptyDf]]

NoSummary == [exc |-> "unset", msg |-> <<>>, stats |-> <<>>]

NoFormatted == [exc |-> "unset", kind |-> "unset", body |-> <<>>]

NoCell == [value |-> [tag |-> "None", v |-> <<"None">>], formatted |-> NoFormatted]

InitData ==
    /\ \E pr \in InputPairs \cup (OneRowOrders \X OneRowPayments) \cup Scenarios
                  \cup MeasurelessPairs :
          /\ orders = pr[1]
          /\ payments = pr[2]
    /\ fill_value \in Fills
    /\ dpc = "start"
    /\ merged_df = EmptyDf
    /\ result_df = EmptyDf
    /\ derr = "none"
    /\ dmsg = <<>>
    /\ again_df = NoAgain
    /\ summary = NoSummary
    /\ cell = NoCell
    /\ IdleIO
    /\ catalog = NoCatalog

\* merged_df = merge_dataframes_with_fillna(orders_df, payments_df)
Merge ==
    /\ dpc = "start"
    /\ LET r == merge_dataframes_with_fillna(orders, payments, "dt", fill_value)
       IN /\ merged_df' = r.df
          /\ derr' = r.exc
          /\ dmsg' = r.msg
          /\ dpc' = IF r.exc = "none" THEN "merged" ELSE "failed"
    /\ UNCHANGED <<orders, payments, fill_value, result_df, again_df, summary, cell>>
    /\ UNCHANGED iovars

\* final_df = calculate_payment_coverage(merged_df)
Coverage ==
    /\ dpc = "merged"
    /\ LET r == calculate_payment_coverage(merged_df)
       IN /\ result_df' = r.df
          /\ derr' = r.exc
          /\ dmsg' = r.msg
          /\ dpc' = IF r.exc = "none" THEN "covered" ELSE "failed"
    /\ UNCHANGED <<orders, payments, fill_value, merged_df, again_df, summary, cell>>
    /\ UNCHANGED iovars

\* The caller computes the coverage once more: on the table the first call
\* returned, and on the merged table it was first computed from.  Each call
\* works on merged_df.copy() and leaves its argument as it was.
Recompute ==
    /\ dpc = "covered"
    /\ again_df' = [own  |-> calculate_payment_coverage(result_df),
                    same |-> calculate_payment_coverage(merged_df)]
    /\ dpc' = "recomputed"
    /\ UNCHANGED <<orders, payments, fill_value, merged_df, result_df, derr, dmsg,
                   summary, cell>>
    /\ UNCHANGED iovars

NextData == Merge \/ Coverage \/ Recompute

vars == <<dvars, iovars>>

SpecData == InitData /\ [][NextData]_vars

-----------------------------------------------------------------------------
(* The summary of a final table as a state machine *)

FinalCols ==
    {"dt", "revenue", "orders_cnt", "payments_cnt", "paid_amount", "payment_coverage"}

\* Rows of a final table: a day with its counts and amounts, the order count
\* possibly null, and the coverage the pipeline derives from the amounts.
FinalRows ==
    { [dt |-> d, revenue |-> Some(r), orders_cnt |-> oc, payments_cnt |-> Some(1),
       paid_amount |-> Some(pa),
       payment_coverage |-> ClipUpper(RowCoverage([revenue |-> Some(r),
                                                   paid_amount |-> Some(pa)]))] :
        d \in Dates, r \in {2}, oc \in {Null, Some(1)}, pa \in Amounts }

\* Tables of up to two days, restricted to any subset of the columns.
FinalTables ==
    { [cols |-> cs, rows |-> [i \in 1..Len(rs) |-> [c \in cs |-> rs[i][c]]]] :
        cs \in SUBSET FinalCols,
        rs \in { t \in UNION { [1..k -> FinalRows] : k \in 0..2 } :
                   \A i, j \in 1..Len(t) : i # j => t[i].dt # t[j].dt } }

InitSummary ==
    /\ result_df \in FinalTables
    /\ orders = EmptyDf
    /\ payments = EmptyDf
    /\ fill_value = 0
    /\ dpc = "final"
    /\ merged_df = EmptyDf
    /\ derr = "none"
    /\ dmsg = <<>>
    /\ again_df = NoAgain
    /\ summary = NoSummary
    /\ cell = NoCell
    /\ IdleIO
    /\ catalog = NoCatalog

\* summary = get_analytics_summary(final_df)
Summary ==
    /\ dpc = "final"
    /\ summary' = get_analytics_summary(result_df)
    /\ dpc' = "summarised"
    /\ UNCHANGED <<orders, payments, fill_value, merged_df, result_df, derr, dmsg,
                   again_df, cell>>
    /\ UNCHANGED iovars

NextSummary == Summary

SpecSummary == InitSummary /\ [][NextSummary]_vars

-----------------------------------------------------------------------------
(* The cell formatter as a state machine *)

InitFormat ==
    /\ \E value \in Values : cell = [value |-> value, formatted |-> NoFormatted]
    /\ orders = EmptyDf
    /\ payments = EmptyDf
    /\ fill_value = 0
    /\ dpc = "cell"
    /\ merged_df = EmptyDf
    /\ result_df = EmptyDf
    /\ derr = "none"
    /\ dmsg = <<>>
    /\ again_df = NoAgain
    /\ summary = NoSummary
    /\ IdleIO
    /\ catalog = NoCatalog

\* format_value(value) for one cell of a row
FormatCell ==
    /\ dpc = "cell"
    /\ cell' = [cell EXCEPT !.formatted = format_value(cell.value)]
    /\ dpc' = "formatted"
    /\ UNCHANGED <<orders, payments, fill_value, merged_df, result_df, derr, dmsg,
                   again_df, summary>>
    /\ UNCHANGED iovars

NextFormat == FormatCell

SpecFormat == InitFormat /\ [][NextFormat]_vars

-----------------------------------------------------------------------------
(* The operations on a connection as a state machine *)

IdleData ==
    /\ orders = EmptyDf
    /\ payments = EmptyDf
    /\ fill_value = 0
    /\ dpc = "off"
    /\ merged_df = EmptyDf
    /\ result_df = EmptyDf
    /\ derr = "none"
    /\ dmsg = <<>>
    /\ again_df = NoAgain
    /\ summary = NoSummary
    /\ cell = NoCell

InitIO ==
    /\ IdleData
    /\ IdleIO
    /\ catalog \in Catalogs

NextIO ==
    \/ Invoke
    \/ SchemaEntry \/ SchemaShow \/ SchemaCreate
    \/ TableEntry \/ TableDrop \/ TableCreate
    \/ InsertEntry \/ InsertBatch \/ InsertEnd
    \/ QueryEntry \/ QuerySelect
    \/ VerifyEntry \/ VerifyCompute
    \/ InfoEntry \/ InfoQuery \/ InfoShowCreate
    \/ SaveCall \/ SaveResults
    \/ SingleEntry \/ SingleExecute
    \/ FinalOrders \/ FinalPayments \/ FinalMerge
    \/ CatalogsEntry \/ CatalogsShow \/ CatalogsEach
    \/ ConnectEntry \/ ConnectSelect

SpecIO == InitIO /\ [][NextIO]_vars

-----------------------------------------------------------------------------
(* Properties of the merge-and-derive functions *)

\* merge_dataframes_with_fillna returned a table.
MergeReturned == dpc # "start" /\ "dt" \in merged_df.cols

RowsWithDate(rows, d) == { i \in 1..Len(rows) : rows[i].dt = d }

\* C1: the dates of the merged table are exactly the union of the dates of
\* the two input tables, and each date of the union is on exactly one row.
C1_MergeDatesAreUnion ==
    MergeReturned =>
        /\ DatesOf(merged_df.rows) = DatesOf(orders.rows) \cup DatesOf(payments.rows)
        /\ \A d \in DatesOf(orders.rows) \cup DatesOf(payments.rows) :
              Cardinality(RowsWithDate(merged_df.rows, d)) = 1

\* A merge of tables where one date is on the orders side only, another on
\* the payments side only.
C1_Witness ==
    /\ MergeReturned
    /\ DatesOf(orders.rows) \ DatesOf(payments.rows) # {}
    /\ DatesOf(payments.rows) \ DatesOf(orders.rows) # {}
    /\ Len(merged_df.rows) = 2

\* The input table a merged column comes from.
SourceOf(c) == IF c \in orders.cols THEN orders ELSE payments

\* C2: after the merge no numeric cell is null; a measure of a date missing
\* on its side holds the fill value, and so does a measure that was already
\* null in its input table.
C2_NoNullNumericAfterMerge ==
    MergeReturned =>
        \A i \in 1..Len(merged_df.rows) :
            \A c \in merged_df.cols \ {"dt"} :
                LET row == merged_df.rows[i]
                    m   == RowsWithDate(SourceOf(c).rows, row.dt)
                IN /\ ~IsNull(row[c])
                   /\ (m = {} => row[c] = Some(fill_value))
                   /\ \A j \in m :
                        IF IsNull(SourceOf(c).rows[j][c])
                        THEN row[c] = Some(fill_value)
                        ELSE row[c] = SourceOf(c).rows[j][c]

\* A merge that had both a gap introduced by the join and a cell that was
\* null before the join.
C2_Witness ==
    /\ MergeReturned
    /\ DatesOf(payments.rows) # DatesOf(orders.rows)
    /\ \E i \in 1..Len(orders.rows) :
          /\ IsNull(orders.rows[i].revenue)
          /\ orders.rows[i].dt \in DatesOf(payments.rows)
    /\ fill_value # 0

\* calculate_payment_coverage returned a table.
CoverageReturned == dpc \in {"covered", "recomputed"}

\* C3: every payment_coverage lies in [0, 1], and is 0 when revenue is 0.
C3_CoverageWithinUnitInterval ==
    CoverageReturned =>
        \A i \in 1..Len(result_df.rows) :
            LET row == result_df.rows[i]
                cov == row.payment_coverage
            IN /\ ~IsNull(cov)
               /\ 0 <= cov[1]
               /\ cov[1] <= cov[2]
               /\ (row.revenue = Some(0) => cov = Zero)

\* C4: payment_coverage is min(paid_amount / revenue, 1) when revenue > 0 and
\* 0 otherwise, no row makes the computation fail, and the worked scenarios
\* give 0.5 and 0.0, 0.0, and 1.0.
C4_CoverageFormula ==
    /\ (dpc = "failed" /\ merged_df.rows # <<>> => derr = "ValueError")
    /\ CoverageReturned =>
        /\ Len(result_df.rows) = Len(merged_df.rows)
        /\ \A i \in 1..Len(result_df.rows) :
            LET row  == result_df.rows[i]
                cov  == row.payment_coverage
                rev  == merged_df.rows[i].revenue[1]
                paid == merged_df.rows[i].paid_amount[1]
            IN IF rev > 0
               THEN IF paid >= rev THEN cov = One
                    ELSE cov[2] > 0 /\ cov[1] * rev = paid * cov[2]
               ELSE cov = Zero
        /\ (orders = OrdersOf(<<100, 200>>) /\ payments = PaymentsOf(<<50>>)
              /\ fill_value = 0 =>
                /\ result_df.rows[1].payment_coverage = <<1, 2>>
                /\ result_df.rows[2].payment_coverage = Zero)
        /\ (orders = OrdersOf(<<0>>) /\ payments = PaymentsOf(<<0>>) =>
                result_df.rows[1].payment_coverage = Zero)
        /\ (orders = OrdersOf(<<100>>) /\ payments = PaymentsOf(<<150>>) =>
                result_df.rows[1].payment_coverage = One)

\* The first scenario, computed: D1 has revenue 100 and paid 50, D2 has
\* revenue 200 and the filled paid amount 0.
C4_Witness ==
    /\ CoverageReturned
    /\ orders = OrdersOf(<<100, 200>>)
    /\ payments = PaymentsOf(<<50>>)
    /\ fill_value = 0
    /\ result_df.rows[2].paid_amount = Some(0)
    /\ result_df.rows[1].payment_coverage = <<1, 2>>

-----------------------------------------------------------------------------
(* Properties of the operations on a connection *)

Ended == op # "idle" /\ stack = <<>>

Returned == Ended /\ outcome.kind = "returned"

Raised == Ended /\ outcome.kind # "returned"

Inserts == SelectSeq(log, LAMBDA e : e.kind = "INSERT")

OkInserts == SelectSeq(log, LAMBDA e : e.kind = "INSERT" /\ e.ok)

RECURSIVE RowsOf(_)
RowsOf(stmts) == IF stmts = <<>> THEN <<>> ELSE Head(stmts).rows \o RowsOf(Tail(stmts))

Iota(n) == [i \in 1..n |-> i]

\* C5: a successful insert of n rows with batch size b >= 1 sends ceil(n / b)
\* INSERT statements, all but the last carrying b rows and the last the
\* remainder; the statements carry rows 1..n once each in source order; the
\* returned count is the sum of the batch sizes and is n.
C5_BatchedInsertCoversAllRows ==
    (Returned /\ op = "insert_dataframe_to_iceberg" /\ args.batch_size >= 1) =>
        LET n == args.n
            b == args.batch_size
            k == (n + b - 1) \div b
        IN /\ Len(Inserts) = k
           /\ Len(log) = k
           /\ \A i \in 1..k : Inserts[i].ok
           /\ \A i \in 1..(k - 1) : Len(Inserts[i].rows) = b
           /\ Len(Inserts[k].rows) = n - b * (k - 1)
           /\ RowsOf(Inserts) = Iota(n)
           /\ loc.ret = Len(RowsOf(Inserts))
           /\ loc.ret = n

\* 2500 rows inserted at batch size 1000: batches of 1000, 1000 and 500.
C5_Witness ==
    /\ Returned
    /\ op = "insert_dataframe_to_iceberg"
    /\ args.n = 2500
    /\ args.batch_size = 1000
    /\ Len(Inserts) = 3
    /\ Len(Inserts[1].rows) = 1000
    /\ Len(Inserts[2].rows) = 1000
    /\ Len(Inserts[3].rows) = 500
    /\ loc.ret = 2500

\* C6: when save_analytics_to_iceberg returns, success is true exactly when
\* verification_passed is; a verification that did not pass is never the
\* reason of an exception.
C6_SuccessIffVerificationPassed ==
    /\ (Returned /\ op = "save_analytics_to_iceberg") =>
          /\ loc.results.made
          /\ loc.report.made
          /\ loc.results.success <=> loc.report.verification_passed
    /\ (Raised /\ op = "save_analytics_to_iceberg" /\ loc.report.made) =>
          /\ log[Len(log)].kind \in {"DESCRIBE", "COUNT"}
          /\ ~log[Len(log)].ok

\* The workflow returned a result although verification did not pass.
C6_Witness ==
    /\ Returned
    /\ op = "save_analytics_to_iceberg"
    /\ ~loc.report.verification_passed
    /\ ~loc.results.success
    /\ loc.results.rows_inserted = args.n

\* Some sampled amount of the read-back is off by the tolerance or more.
SampledAmountOff ==
    LET orig == OrigDf(args.n)
        pers == loc.persisted
        k    == Min(SampleSize, Min(Len(orig.rows), Len(pers.rows)))
        os   == SortValues(orig.rows, "dt")
        ps   == SortValues(pers.rows, "dt")
    IN /\ {"dt", "revenue"} \subseteq Range(pers.cols)
       /\ \E i \in 1..k : Abs(os[i].revenue - ps[i].revenue) >= Tolerance

\* C7: verification_passed is the conjunction of the five checks; once the
\* read-back succeeded verify_data_persistence returns its report, whatever
\* differs between the two tables, and a differing row count, column list or
\* sampled amount shows in the report.
C7_VerificationReportedNotRaised ==
    /\ loc.report.made =>
          (loc.report.verification_passed <=>
              /\ loc.report.row_count_match
              /\ loc.report.column_count_match
              /\ loc.report.columns_match
              /\ loc.report.data_types_compatible
              /\ loc.report.sample_data_match)
    /\ (Raised /\ op = "verify_data_persistence") =>
          /\ log = <<Stmt("SELECT", <<>>, FALSE)>>
          /\ ~loc.report.made
    /\ (Returned /\ op = "verify_data_persistence") =>
          /\ loc.report.made
          /\ (Len(loc.persisted.rows) # args.n => ~loc.report.row_count_match)
          /\ (loc.persisted.cols # OrigCols => ~loc.report.columns_match)
          /\ (SampledAmountOff => ~loc.report.sample_data_match)

\* A read-back with the right shape but a wrong amount: returned as a report
\* whose only failed check is the sample.
C7_Witness ==
    /\ Returned
    /\ op = "verify_data_persistence"
    /\ loc.report.row_count_match
    /\ loc.report.columns_match
    /\ ~loc.report.sample_data_match
    /\ ~loc.report.verification_passed

\* C8: no operation ends, by return or by exception, with a cursor it
\* acquired still open.
C8_NoCursorLeftOpen == Ended => cursors = {}

\* C9: a validation error is raised before any statement has been sent to
\* the connection.
C9_ValidationBeforeAnyStatement ==
    (Raised /\ outcome.cause = "empty_df") => log = <<>>

\* The rows an older table held before the operation started.
StaleRows == SelectSeq(catalog.rows, LAMBDA id : id <= 0)

\* C10: a failed INSERT is the last statement of the operation (no retry, no
\* later batch, no DELETE or DROP after it) and ends it with an error, the
\* table keeping exactly the rows of the batches sent before it; a save that
\* fails after CREATE TABLE succeeded and before any INSERT succeeded leaves
\* the table in place and empty.
C10_NoRollbackNoResume ==
    /\ \A i \in 1..Len(log) :
          (log[i].kind = "INSERT" /\ ~log[i].ok) =>
              /\ i = Len(log)
              /\ Raised
              /\ outcome.kind = "RuntimeError"
              /\ \A j \in 1..(i - 1) :
                    log[j].kind = "INSERT" => log[j].ok
              /\ \A j \in 1..(i - 1) :
                    op = "insert_dataframe_to_iceberg" => log[j].kind = "INSERT"
              /\ catalog.rows = StaleRows \o RowsOf(OkInserts)
              /\ RowsOf(OkInserts) = Iota(Len(OkInserts) * args.batch_size)
              /\ log[i].rows # <<>>
              /\ log[i].rows[1] = Len(OkInserts) * args.batch_size + 1
    /\ (/\ Raised
        /\ op = "save_analytics_to_iceberg"
        /\ \E i \in 1..Len(log) : log[i].kind = "CREATE_TABLE" /\ log[i].ok
        /\ OkInserts = <<>>) =>
          /\ catalog.table
          /\ catalog.rows = <<>>

\* An insert that failed on its second statement: the first batch stays.
C10_Witness ==
    /\ Raised
    /\ op = "insert_dataframe_to_iceberg"
    /\ Len(Inserts) = 2
    /\ ~Inserts[2].ok
    /\ catalog.rows = Inserts[1].rows
    /\ Len(catalog.rows) = args.batch_size
    /\ args.n > args.batch_size

-----------------------------------------------------------------------------
(* Properties of the summary, of recomputation and of the validations *)

\* C15: get_analytics_summary raises ValueError and gives no summary when the
\* table is empty or lacks any column the summary reads (dt, revenue,
\* orders_cnt, payments_cnt, paid_amount, payment_coverage); on a non-empty
\* table holding all of them it returns a summary.
C15_SummaryValidation ==
    dpc = "summarised" =>
        /\ (result_df.rows = <<>> \/ FinalCols \ result_df.cols # {}) =>
               /\ summary.exc = "ValueError"
               /\ summary.stats = <<>>
        /\ (result_df.rows # <<>> /\ FinalCols \subseteq result_df.cols) =>
               /\ summary.exc = "none"
               /\ summary.stats.total_days = Len(result_df.rows)

\* C16: the coverage computed again on the table the first call returned is
\* the coverage already there, the table handed to the first call gives the
\* same table again, and the coverage of a row is the one the function gives
\* for that row alone.
C16_CoverageIdempotent ==
    dpc = "recomputed" =>
        /\ again_df.own.exc = "none"
        /\ Len(again_df.own.df.rows) = Len(result_df.rows)
        /\ \A i \in 1..Len(result_df.rows) :
              again_df.own.df.rows[i].payment_coverage
                  = result_df.rows[i].payment_coverage
        /\ again_df.own.df = result_df
        /\ again_df.same.exc = "none"
        /\ again_df.same.df = result_df
        /\ \A i \in 1..Len(merged_df.rows) :
              LET alone == calculate_payment_coverage(
                               [cols |-> merged_df.cols, rows |-> <<merged_df.rows[i]>>])
              IN alone.df.rows[1].payment_coverage = result_df.rows[i].payment_coverage

\* A two-day table recomputed, one day capped at 1 and one day at one half.
C16_Witness ==
    /\ dpc = "recomputed"
    /\ Len(result_df.rows) = 2
    /\ result_df.rows[1].payment_coverage = One
    /\ result_df.rows[2].payment_coverage = <<1, 2>>
    /\ again_df.own.df.rows[2].payment_coverage = <<1, 2>>

\* C17: a merge whose key column is absent from the orders table or from the
\* payments table raises ValueError naming the key and the table, and returns
\* no table; a coverage computation on a table lacking revenue or paid_amount
\* raises ValueError listing exactly the lacking ones, each once; no
\* validation error is raised otherwise.
C17_ValidationErrorsNameColumns ==
    /\ dpc # "start" /\ dpc # "final" /\ dpc # "summarised" =>
          IF "dt" \notin orders.cols \/ "dt" \notin payments.cols
          THEN /\ dpc = "failed"
               /\ derr = "ValueError"
               /\ Len(dmsg) = 4
               /\ dmsg[2] = "dt"
               /\ dmsg[4] = (IF "dt" \notin orders.cols THEN "orders" ELSE "payments")
               /\ merged_df = EmptyDf
               /\ result_df = EmptyDf
          ELSE MergeReturned
    /\ (MergeReturned /\ dpc # "merged") =>
          LET lacking == {"revenue", "paid_amount"} \ merged_df.cols
          IN IF lacking # {}
             THEN /\ dpc = "failed"
                  /\ derr = "ValueError"
                  /\ dmsg[1] = "Missing required columns"
                  /\ Range(dmsg[2]) = lacking
                  /\ Len(dmsg[2]) = Cardinality(lacking)
                  /\ result_df = EmptyDf
             ELSE derr # "ValueError"

\* A coverage computation refused for a merged table that has revenue but no
\* paid_amount.
C17_Witness ==
    /\ MergeReturned
    /\ dpc = "failed"
    /\ "revenue" \in merged_df.cols
    /\ derr = "ValueError"
    /\ dmsg = <<"Missing required columns", <<"paid_amount">>>>

-----------------------------------------------------------------------------
(* Properties of the type inference and of the query text *)

\* The dtypes pandas counts as integer.
IntegerDtypes == { "int64", "int32", "uint8", "Int64" }

\* C11: in the column definitions of CREATE TABLE a column of an integer
\* dtype is BIGINT, and the date key column dt is DATE whatever its dtype.
C11_TypeInference ==
    \A i \in 1..Len(loc.column_definitions) :
        LET col == loc.column_definitions[i][1]
            ty  == loc.column_definitions[i][2]
        IN /\ (col # "dt" /\ args.dtypes[col] \in IntegerDtypes) => ty = "BIGINT"
           /\ (col = "dt" => ty = "DATE")

\* An optional text argument that was given (a text to put after the keyword).
SuppliedStr(o) == o # Null /\ o[1] # ""

\* C19: the query of query_iceberg_table is SELECT * FROM <table> followed by
\* WHERE, ORDER BY and LIMIT in that order, each present exactly when its
\* option was given; a row limit of 0 is a given limit.
C19_QueryClauseOrder ==
    (Ended /\ op = "query_iceberg_table") =>
        loc.query =
            <<<<"SELECT * FROM", "iceberg.analytics.daily_analytics">>>>
            \o (IF SuppliedStr(args.where_clause)
                THEN <<<<"WHERE", args.where_clause[1]>>>> ELSE <<>>)
            \o (IF SuppliedStr(args.order_by)
                THEN <<<<"ORDER BY", args.order_by[1]>>>> ELSE <<>>)
            \o (IF args.limit # Null THEN <<<<"LIMIT", args.limit[1]>>>> ELSE <<>>)

-----------------------------------------------------------------------------
(* Properties of the namespace and of the best-effort steps *)

SchemaStmts == SelectSeq(log, LAMBDA e : e.kind \in {"SHOW_SCHEMAS", "CREATE_SCHEMA"})

\* C12: create_iceberg_schema returns True after SHOW SCHEMAS alone when the
\* namespace is listed and after one CREATE SCHEMA IF NOT EXISTS when it is
\* not; it raises only when a statement of its own failed; called a second
\* time right after a first call (as the save workflow does) it sends SHOW
\* SCHEMAS only, so the catalog stays as the first call left it.
C12_SchemaIdempotent ==
    /\ (Returned /\ op = "create_iceberg_schema") =>
          /\ catalog.schema
          /\ log = IF DEFAULT_SCHEMA \in Range(loc.existing_schemas)
                   THEN <<Stmt("SHOW_SCHEMAS", <<>>, TRUE)>>
                   ELSE <<Stmt("SHOW_SCHEMAS", <<>>, TRUE),
                          Stmt("CREATE_SCHEMA", <<>>, TRUE)>>
    /\ (Raised /\ op = "create_iceberg_schema") =>
          /\ log # <<>>
          /\ ~log[Len(log)].ok
          /\ \A i \in 1..(Len(log) - 1) : log[i].ok
    /\ op = "save_analytics_to_iceberg" =>
          /\ Len(SelectSeq(log, LAMBDA e : e.kind = "CREATE_SCHEMA")) <= 1
          /\ \A i \in 1..Len(log) :
                (log[i].kind = "SHOW_SCHEMAS" /\ i > 1) =>
                    /\ catalog.schema
                    /\ (log[i].ok /\ i < Len(log)) => log[i + 1].kind # "CREATE_SCHEMA"
                    /\ \A j \in (i + 1)..Len(log) :
                          log[j].kind \notin {"SHOW_SCHEMAS", "CREATE_SCHEMA"}

\* The save workflow past its second call, the first call having created the
\* namespace: SHOW, CREATE, then SHOW alone.
C12_Witness ==
    /\ op = "save_analytics_to_iceberg"
    /\ Len(log) > 3
    /\ SchemaStmts = <<Stmt("SHOW_SCHEMAS", <<>>, TRUE),
                       Stmt("CREATE_SCHEMA", <<>>, TRUE),
                       Stmt("SHOW_SCHEMAS", <<>>, TRUE)>>
    /\ catalog.schema

\* C13: a failed DROP TABLE IF EXISTS is followed by the CREATE TABLE statement
\* and does not end the operation, which can still return; a failed SHOW
\* CREATE TABLE ends get_iceberg_table_info by a return, with the column list
\* and the row count read before and create_statement None.
C13_SoftFailuresContinue ==
    /\ \A i \in 1..Len(log) :
          (log[i].kind = "DROP_TABLE" /\ ~log[i].ok) =>
              IF i = Len(log)
              THEN /\ ~Ended
                   /\ At("create_iceberg_table_from_dataframe", "create")
              ELSE log[i + 1].kind = "CREATE_TABLE"
    /\ \A i \in 1..Len(log) :
          (log[i].kind = "SHOW_CREATE_TABLE" /\ ~log[i].ok) =>
              /\ i = Len(log)
              /\ outcome.kind \in {"running", "returned"}
              /\ (op = "get_iceberg_table_info" => Returned)
              /\ loc.create_statement = "None"
              /\ loc.columns = catalog.cols
              /\ loc.columns # <<>>
              /\ loc.row_count = Len(catalog.rows)

\* A save that returned although both best-effort statements failed.
C13_Witness ==
    /\ Returned
    /\ op = "save_analytics_to_iceberg"
    /\ \E i \in 1..Len(log) : log[i].kind = "DROP_TABLE" /\ ~log[i].ok
    /\ \E i \in 1..Len(log) : log[i].kind = "SHOW_CREATE_TABLE" /\ ~log[i].ok
    /\ \E i \in 1..Len(log) : log[i].kind = "CREATE_TABLE" /\ log[i].ok
    /\ loc.results.made
    /\ loc.create_statement = "None"

-----------------------------------------------------------------------------
(* Properties of the verification flags and of the workflow order *)

\* C14: in the verification report row_count_match tells whether the read-back
\* has as many rows as the original, column_count_match whether it has as
\* many columns, columns_match whether its column names are the original's,
\* position by position; a read-back of as many rows with the same column
\* order has all three true.
C14_ShapeFlags ==
    loc.report.made =>
        LET pers == loc.persisted
        IN /\ loc.report.row_count_match <=> (Len(pers.rows) = args.n)
           /\ loc.report.column_count_match <=> (Len(pers.cols) = Len(OrigCols))
           /\ loc.report.columns_match <=>
                 /\ Len(pers.cols) = Len(OrigCols)
                 /\ \A i \in 1..Len(OrigCols) : pers.cols[i] = OrigCols[i]
           /\ (Len(pers.rows) = args.n /\ pers.cols = <<"dt", "revenue">>) =>
                 /\ loc.report.row_count_match
                 /\ loc.report.column_count_match
                 /\ loc.report.columns_match

\* Three rows written and three rows read back with the same column order.
C14_Witness ==
    /\ Returned
    /\ op = "save_analytics_to_iceberg"
    /\ args.n = 3
    /\ loc.ret = 3
    /\ Len(loc.persisted.rows) = 3
    /\ loc.persisted.cols = OrigCols
    /\ loc.report.row_count_match
    /\ loc.report.column_count_match
    /\ loc.report.columns_match

\* The step of the workflow a statement belongs to.
StepOf(kind) ==
    CASE kind \in {"SHOW_SCHEMAS", "CREATE_SCHEMA"} -> 1
      [] kind \in {"DROP_TABLE", "CREATE_TABLE"} -> 2
      [] kind = "INSERT" -> 3
      [] kind = "SELECT" -> 4
      [] kind \in {"DESCRIBE", "COUNT", "SHOW_CREATE_TABLE"} -> 5

\* The statements whose failure is logged and passed over.
BestEffort == {"DROP_TABLE", "SHOW_CREATE_TABLE"}

\* C18: the statements of save_analytics_to_iceberg come in the order of its
\* steps (namespace, table, insert, read-back, metadata); an INSERT comes only
\* after a CREATE TABLE that succeeded, the read-back only after INSERTs that
\* carried every row, the metadata queries only after the verification
\* report was made; a statement that fails, other than the best-effort ones,
\* is the last statement and ends the workflow with an error.
C18_SaveStepOrder ==
    op = "save_analytics_to_iceberg" =>
        /\ \A i, j \in 1..Len(log) :
              i < j => StepOf(log[i].kind) <= StepOf(log[j].kind)
        /\ \A i \in 1..Len(log) :
              /\ log[i].kind = "INSERT" =>
                    \E j \in 1..(i - 1) : log[j].kind = "CREATE_TABLE" /\ log[j].ok
              /\ log[i].kind = "SELECT" =>
                    /\ \A j \in 1..(i - 1) : log[j].ok \/ log[j].kind \in BestEffort
                    /\ RowsOf(SelectSeq(SubSeq(log, 1, i - 1),
                                        LAMBDA e : e.kind = "INSERT")) = Iota(args.n)
                    /\ loc.ret = args.n
              /\ StepOf(log[i].kind) = 5 =>
                    /\ loc.report.made
                    /\ \E j \in 1..(i - 1) : log[j].kind = "SELECT" /\ log[j].ok
              /\ (~log[i].ok /\ log[i].kind \notin BestEffort) =>
                    /\ i = Len(log)
                    /\ Raised
                    /\ outcome.kind = "RuntimeError"
        /\ Returned =>
              /\ loc.results.made
              /\ \E i \in 1..Len(log) : log[i].kind = "COUNT" /\ log[i].ok

\* A save of 2500 rows that returned: three INSERTs, then the read-back, then
\* the metadata queries.
C18_Witness ==
    /\ Returned
    /\ op = "save_analytics_to_iceberg"
    /\ args.n = 2500
    /\ Len(Inserts) = 3
    /\ [i \in 1..Len(log) |-> log[i].kind] =
          <<"SHOW_SCHEMAS", "CREATE_SCHEMA", "SHOW_SCHEMAS", "DROP_TABLE", "CREATE_TABLE",
            "INSERT", "INSERT", "INSERT", "SELECT", "DESCRIBE", "COUNT",
            "SHOW_CREATE_TABLE">>

-----------------------------------------------------------------------------
(* Properties of the sampled comparison *)

\* N = min(5, original rows, persisted rows)
SampleN == Min(SampleSize, Min(args.n, Len(loc.persisted.rows)))

\* Every pair of amounts among the first N rows of the two tables, each in
\* the order of the date column, is equal or less than the tolerance apart
\* (the rows of a read-back carry their date also when its column list does
\* not name it).
SampledPairsClose ==
    LET os == SubSeq(SortValues(OrigDf(args.n).rows, "dt"), 1, SampleN)
        ps == SubSeq(SortValues(loc.persisted.rows, "dt"), 1, SampleN)
    IN \A i \in 1..SampleN :
          \/ os[i].revenue = ps[i].revenue
          \/ Abs(os[i].revenue - ps[i].revenue) < Tolerance

-----------------------------------------------------------------------------
(* Properties of the type loop *)

\* C21: a dtype mismatch between a column of the original and of the
\* persisted table is only logged: data_types_compatible is true in every
\* report, and a report with logged mismatches whose other four checks hold
\* has verification_passed true.
C21_TypeMismatchOnlyLogged ==
    loc.report.made =>
        /\ loc.report.data_types_compatible
        /\ ( /\ loc.warnings > 0
             /\ loc.report.row_count_match
             /\ loc.report.column_count_match
             /\ loc.report.columns_match
             /\ loc.report.sample_data_match ) => loc.report.verification_passed

\* An integer amount column read back as floats: one warning, and the
\* verification passes.
C21_Witness ==
    /\ loc.report.made
    /\ args.dtypes.revenue = "int64"
    /\ loc.persisted.dtype = "float64"
    /\ loc.warnings = 1
    /\ loc.report.verification_passed

-----------------------------------------------------------------------------
(* Properties of the cell formatter *)

\* The quotes of a literal body come in pairs.
RECURSIVE QuotesPaired(_)
QuotesPaired(w) ==
    IF w = <<>> THEN TRUE
    ELSE IF Head(w) = "'"
    THEN Len(w) >= 2 /\ w[2] = "'" /\ QuotesPaired(SubSeq(w, 3, Len(w)))
    ELSE QuotesPaired(Tail(w))

\* The text a literal body stands for: each pair of quotes read as one.
RECURSIVE Unescape(_)
Unescape(w) ==
    IF w = <<>> THEN <<>>
    ELSE IF Head(w) = "'" /\ Len(w) >= 2
    THEN <<"'">> \o Unescape(SubSeq(w, 3, Len(w)))
    ELSE <<Head(w)>> \o Unescape(Tail(w))

\* C22: format_value gives a literal for every cell: NULL for a null, DATE
\* '<value>' for a date or datetime, for a string a quoted literal whose
\* quotes are all doubled, the bare number text for an int or float (bool
\* is an int), and the quoted string form for any other value.
C22_CellFormatterTotal ==
    dpc = "formatted" =>
        LET value == cell.value
            f     == cell.formatted
        IN /\ f.exc = "none"
           /\ CASE value.tag \in {"None", "nan", "NaT"} -> f.kind = "NULL"
                [] value.tag \in {"date", "datetime"} ->
                      f.kind = "DATE" /\ f.body = StrOf(value)
                [] value.tag = "str" ->
                      /\ f.kind = "quoted"
                      /\ QuotesPaired(f.body)
                      /\ Unescape(f.body) = value.v
                [] value.tag \in {"int", "float", "bool"} ->
                      f.kind = "bare" /\ f.body = StrOf(value)
                [] OTHER ->
                      f.kind = "quoted" /\ f.body = StrOf(value)

-----------------------------------------------------------------------------
(* Properties of the precedence of the type inference *)

\* The rules in their order: the words looked for in the dtype name, or the
\* column name asked for, and the type given.
TypeRules ==
    << [words |-> {<<"i", "n", "t">>}, name |-> "", type |-> "BIGINT"],
       [words |-> {<<"f", "l", "o", "a", "t">>, <<"d", "o", "u", "b", "l", "e">>},
        name |-> "", type |-> "DOUBLE"],
       [words |-> {<<"b", "o", "o", "l">>}, name |-> "", type |-> "BOOLEAN"],
       [words |-> {<<"d", "a", "t", "e", "t", "i", "m", "e">>,
                   <<"t", "i", "m", "e", "s", "t", "a", "m", "p">>},
        name |-> "", type |-> "TIMESTAMP(3)"],
       [words |-> {<<"d", "a", "t", "e">>}, name |-> "", type |-> "DATE"],
       [words |-> {}, name |-> "dt", type |-> "DATE"] >>

RuleMatches(rule, dtype, col) ==
    \/ \E w \in rule.words : Contains(DtypeStr(dtype), w)
    \/ (rule.name # "" /\ rule.name = col)

\* The type of the first rule that matches, VARCHAR when none does.
FirstRuleType(dtype, col) ==
    LET hits == { i \in 1..Len(TypeRules) : RuleMatches(TypeRules[i], dtype, col) }
    IN IF hits = {} THEN "VARCHAR"
       ELSE TypeRules[CHOOSE i \in hits : \A j \in hits : i <= j].type

\* C23: the column definitions of CREATE TABLE are one per source column, in
\* the order of the source columns, each with the type of the first rule
\* that matches its dtype name or, last, its column name.
C23_TypePrecedence ==
    loc.column_definitions # <<>> =>
        /\ Len(loc.column_definitions) = Len(OrigCols)
        /\ \A i \in 1..Len(OrigCols) :
              /\ loc.column_definitions[i][1] = OrigCols[i]
              /\ loc.column_definitions[i][2] =
                    FirstRuleType(args.dtypes[OrigCols[i]], OrigCols[i])

\* A table whose date column holds datetimes and whose amount column is of
\* the nullable integer dtype: TIMESTAMP(3), not DATE, and VARCHAR.
C23_Witness ==
    /\ Returned
    /\ op = "create_iceberg_table_from_dataframe"
    /\ args.dtypes = [dt |-> "datetime64[ns]", revenue |-> "Int64"]
    /\ loc.column_definitions = <<<<"dt", "TIMESTAMP(3)">>, <<"revenue", "VARCHAR">>>>

-----------------------------------------------------------------------------
(* Properties of the failure of a statement *)

\* Nothing the invoked operation would have returned has been made.
NothingReturned ==
    /\ loc.final = "unset"
    /\ ~loc.results.made
    /\ op \notin loc.frames
    /\ (op = "query_iceberg_table" => loc.persisted = NoDf)
    /\ (op = "verify_data_persistence" => ~loc.report.made)

\* The statements whose failure the code logs and passes over: the DROP
\* before CREATE TABLE, SHOW CREATE TABLE of the table info, and the SHOW
\* SCHEMAS sent for each catalog by test_catalog_connectivity.
PassedOver == {"DROP_TABLE", "SHOW_CREATE_TABLE", "SHOW_SCHEMAS_FROM"}

-----------------------------------------------------------------------------
(* Properties of the order of the merged table *)

\* C25: the table merge_dataframes_with_fillna returns has its rows in
\* ascending order of the merge key, whatever the order of the rows of the
\* two input tables, and its index is 0..n-1 in that order.
C25_MergedSortedAndReindexed ==
    (dpc # "start" /\ derr = "none" /\ "dt" \in merged_df.cols) =>
        /\ \A i, j \in 1..Len(merged_df.rows) :
              i < j => merged_df.rows[i].dt <= merged_df.rows[j].dt
        /\ merged_df.index = [i \in 1..Len(merged_df.rows) |-> i - 1]

\* Orders given latest day first, and a payment on a day before the first
\* order row: the merged table starts with the earliest day.
C25_Witness ==
    /\ dpc = "merged"
    /\ Len(orders.rows) = 2
    /\ orders.rows[1].dt > orders.rows[2].dt
    /\ Len(payments.rows) >= 1
    /\ payments.rows[1].dt < orders.rows[1].dt
    /\ Len(merged_df.rows) = 2
    /\ merged_df.rows[1].dt < merged_df.rows[2].dt

-----------------------------------------------------------------------------
(* Properties of the returned count *)

\* C26: whatever the batch_size, positive, zero or negative, when
\* insert_dataframe_to_iceberg returns, the count it returns is the number
\* of rows of its table and the INSERT statements it sent, all of which
\* succeeded, carry every row.
C26_NeverReturnsShort ==
    (Returned /\ op = "insert_dataframe_to_iceberg") =>
        /\ loc.ret = args.n
        /\ \A i \in 1..Len(Inserts) : Inserts[i].ok
        /\ RowsOf(Inserts) = Iota(args.n)

=============================================================================
